---- MODULE Spec2Model ----
(***************************************************************************)
(* Conversation-history windowing and prompt assembly                      *)
(* (scripts/demo/conversation_memory_demo.py, utils/tokenizer.py,          *)
(* prompts/runtime_builder.py).                                            *)
(*                                                                         *)
(* Text is a sequence of one-character strings, so that splitting,         *)
(* trimming, case conversion and the regex scan act on characters as the   *)
(* Python code does.  An Optional value is <<>> (None) or <<v>>.           *)
(***************************************************************************)
EXTENDS Integers, Sequences, FiniteSets, TLC

VARIABLES
    env,            \* what the process finds installed: tokenizer.py, tiktoken
    history,        \* List[Dict]: the normalized history (oldest first)
    call,           \* the last library-level function call: arguments and result
    pc,             \* position of the __main__ block
    argv,           \* command-line options as given
    turns,          \* parse_args: args.turns or []
    max_turns,      \* parse_args: args.max_turns
    token_budget,   \* parse_args: args.token_budget (Optional)
    model_hint,     \* parse_args: args.model (Optional)
    window,         \* the selected window
    method,         \* which windowing method ran
    msg,            \* parse_args: the current message
    instruction,    \* build_instruction(window, msg)
    prompt_parts,   \* parts = rb.build_prompt(instruction) (Optional)
    error,          \* the exception that ended the run (Optional)
    stdout          \* what print has written, one entry per call

vars == <<env, history, call, pc, argv, turns, max_turns, token_budget,
          model_hint, window, method, msg, instruction, prompt_parts, error, stdout>>

----------------------------------------------------------------------------
(* Bounds of the model *)

MaxLen == 3        \* longest list of raw --turn lines drawn
MaxBudget == 10    \* largest token budget drawn
MaxN == 4          \* largest max-turns count drawn
MaxTextLen == 3    \* longest text drawn for the token estimator

(* Program constant: --max-turns default *)
DefaultMaxTurns == 6

----------------------------------------------------------------------------
(* Optional values *)

None == <<>>
Some(v) == <<v>>
IsNone(o) == o = <<>>
Val(o) == o[1]

----------------------------------------------------------------------------
(* Characters and Python str methods *)

LowerSeq == <<"a", "b", "c", "d", "e", "f", "g", "h", "i", "j", "k", "l", "m",
              "n", "o", "p", "q", "r", "s", "t", "u", "v", "w", "x", "y", "z">>
UpperSeq == <<"A", "B", "C", "D", "E", "F", "G", "H", "I", "J", "K", "L", "M",
              "N", "O", "P", "Q", "R", "S", "T", "U", "V", "W", "X", "Y", "Z">>
Digits == {"0", "1", "2", "3", "4", "5", "6", "7", "8", "9"}

Range(s) == {s[i] : i \in 1..Len(s)}

\* \w of the re module: letters, digits, underscore
WordChars == Range(LowerSeq) \cup Range(UpperSeq) \cup Digits \cup {"_"}
IsWord(c) == c \in WordChars
\* \s of the re module and the characters str.strip() removes
IsSpace(c) == c \in {" ", "\t", "\n", "\r"}

\* the character U+0060 (grave accent), which a TLA+ string cannot hold
Backtick == "U+0060"

char_lower(c) ==
    IF \E i \in 1..Len(UpperSeq) : UpperSeq[i] = c
    THEN LowerSeq[CHOOSE i \in 1..Len(UpperSeq) : UpperSeq[i] = c]
    ELSE c

char_upper(c) ==
    IF \E i \in 1..Len(LowerSeq) : LowerSeq[i] = c
    THEN UpperSeq[CHOOSE i \in 1..Len(LowerSeq) : LowerSeq[i] = c]
    ELSE c

\* str.lower()
str_lower(s) == [i \in 1..Len(s) |-> char_lower(s[i])]

\* str.capitalize(): first character upper-cased, the rest lower-cased
str_capitalize(s) ==
    [i \in 1..Len(s) |-> IF i = 1 THEN char_upper(s[i]) ELSE char_lower(s[i])]

\* str.lstrip() / str.rstrip() / str.strip()
RECURSIVE str_lstrip(_)
str_lstrip(s) ==
    IF s # <<>> /\ IsSpace(Head(s)) THEN str_lstrip(Tail(s)) ELSE s

RECURSIVE str_rstrip(_)
str_rstrip(s) ==
    IF s # <<>> /\ IsSpace(s[Len(s)])
    THEN str_rstrip(SubSeq(s, 1, Len(s) - 1))
    ELSE s

str_strip(s) == str_rstrip(str_lstrip(s))

\* sep in s
str_contains(s, sep) == \E i \in 1..Len(s) : s[i] = sep

\* s.find(sep) from position i (1-based); 0 when absent
RECURSIVE str_find(_, _, _)
str_find(s, sep, i) ==
    IF i > Len(s) THEN 0
    ELSE IF s[i] = sep THEN i
    ELSE str_find(s, sep, i + 1)

\* s.split(sep, 1): at most one split, at the leftmost separator
str_split1(s, sep) ==
    LET k == str_find(s, sep, 1)
    IN  IF k = 0 THEN <<s>>
        ELSE <<SubSeq(s, 1, k - 1), SubSeq(s, k + 1, Len(s))>>

\* list(reversed(xs))
list_reversed(xs) == [i \in 1..Len(xs) |-> xs[Len(xs) + 1 - i]]

\* xs[start:] with Python's index normalisation
list_slice_from(xs, start) ==
    LET n == Len(xs)
        lo == IF start < 0
              THEN (IF n + start < 0 THEN 0 ELSE n + start)
              ELSE (IF start > n THEN n ELSE start)
    IN  SubSeq(xs, lo + 1, n)

----------------------------------------------------------------------------
(* re.findall(pattern, text): a pattern is an ordered list of alternatives, *)
(* each "\\w+" (a maximal run of word characters) or "[^\\w\\s]" (one      *)
(* character that is neither word nor space).  The scan is leftmost, tries *)
(* the alternatives in order, and resumes after each match.                *)

RECURSIVE word_run_end(_, _)
word_run_end(text, i) ==
    IF i < Len(text) /\ IsWord(text[i + 1]) THEN word_run_end(text, i + 1) ELSE i

\* end position of the match of alternative alt at i, 0 for no match
alt_match_end(alt, text, i) ==
    CASE alt = "\\w+"       -> IF IsWord(text[i]) THEN word_run_end(text, i) ELSE 0
      [] alt = "\\w"        -> IF IsWord(text[i]) THEN i ELSE 0
      [] alt = "[^\\w\\s]"  -> IF ~IsWord(text[i]) /\ ~IsSpace(text[i]) THEN i ELSE 0
      [] alt = "[^\\w ]"    -> IF ~IsWord(text[i]) /\ text[i] # " " THEN i ELSE 0
      [] OTHER              -> 0

RECURSIVE pattern_match_end(_, _, _, _)
pattern_match_end(pattern, k, text, i) ==
    IF k > Len(pattern) THEN 0
    ELSE LET e == alt_match_end(pattern[k], text, i)
         IN  IF e # 0 THEN e ELSE pattern_match_end(pattern, k + 1, text, i)

RECURSIVE re_findall_len(_, _, _)
re_findall_len(pattern, text, i) ==
    IF i > Len(text) THEN 0
    ELSE LET e == pattern_match_end(pattern, 1, text, i)
         IN  IF e = 0 THEN re_findall_len(pattern, text, i + 1)
             ELSE 1 + re_findall_len(pattern, text, e + 1)

----------------------------------------------------------------------------
(* utils/tokenizer.py *)

HEURISTIC_PATTERN == <<"\\w+", "[^\\w\\s]">>

\* _heuristic_count with "\w" for "\w+": every word character is a token
heuristic_count_chars(text) == re_findall_len(<<"\\w", "[^\\w\\s]">>, text, 1)

\* _heuristic_count(text)
heuristic_count(text) == re_findall_len(HEURISTIC_PATTERN, text, 1)

(* tiktoken is a third-party library, not code of this repository.  Its    *)
(* encoders are represented by two tokenizations that, like a byte-pair    *)
(* encoder, give 0 tokens for the empty text and at least one token for a  *)
(* text that holds a visible character or a newline: cl100k_base splits    *)
(* into word runs and single non-word characters other than the plain      *)
(* space (a newline is a token), gpt2 splits words further, into single    *)
(* characters.                                                             *)
tiktoken_encode_len(enc, text) ==
    IF enc = "gpt2"
    THEN re_findall_len(<<"\\w", "[^\\w ]">>, text, 1)
    ELSE re_findall_len(<<"\\w+", "[^\\w ]">>, text, 1)

\* tiktoken.encoding_for_model(model_name): None stands for the KeyError
tiktoken_encoding_for_model(model_name) ==
    CASE model_name = "gpt2"          -> Some("gpt2")
      [] model_name = "gpt-3.5-turbo" -> Some("cl100k_base")
      [] OTHER                        -> None

\* tiktoken.get_encoding("cl100k_base"): None stands for the exception
\* raised when the encoding cannot be loaded
tiktoken_get_encoding(e, name) == IF e.base THEN Some(name) ELSE None

\* count_tokens with "except ImportError" for "except Exception": an error
\* of get_encoding or of encode reaches the caller
tokenizer_count_tokens_result_importonly(e, text, model_name) ==
    IF ~e.tiktoken
    THEN [raised |-> FALSE, via |-> "heuristic", value |-> heuristic_count(text)]
    ELSE LET enc0 == IF ~IsNone(model_name)
                     THEN tiktoken_encoding_for_model(Val(model_name))
                     ELSE None
             enc  == IF IsNone(enc0)
                     THEN tiktoken_get_encoding(e, "cl100k_base")
                     ELSE enc0
         IN  IF IsNone(enc) \/ Val(enc) \in e.encode_fails
             THEN [raised |-> TRUE, via |-> "none", value |-> 0]
             ELSE [raised |-> FALSE, via |-> Val(enc),
                   value |-> tiktoken_encode_len(Val(enc), text)]

\* count_tokens without the model-specific lookup: always cl100k_base
tokenizer_count_tokens_result_nomodel(e, text, model_name) ==
    IF ~e.tiktoken
    THEN [raised |-> FALSE, via |-> "heuristic", value |-> heuristic_count(text)]
    ELSE LET enc == tiktoken_get_encoding(e, "cl100k_base")
         IN  IF IsNone(enc) \/ Val(enc) \in e.encode_fails
             THEN [raised |-> FALSE, via |-> "heuristic",
                   value |-> heuristic_count(text)]
             ELSE [raised |-> FALSE, via |-> Val(enc),
                   value |-> tiktoken_encode_len(Val(enc), text)]

\* count_tokens(text, model_name) of the tokenizer module, in environment e:
\* the value returned, the strategy that produced it (via), and whether an
\* exception left the function (the outer "except Exception" lets none out)
tokenizer_count_tokens_result(e, text, model_name) ==
    IF ~e.tiktoken
    THEN \* import tiktoken raises
         [raised |-> FALSE, via |-> "heuristic", value |-> heuristic_count(text)]
    ELSE LET enc0 == IF ~IsNone(model_name)
                     THEN tiktoken_encoding_for_model(Val(model_name))
                     ELSE None                      \* inner except: pass
             enc  == IF IsNone(enc0)
                     THEN tiktoken_get_encoding(e, "cl100k_base")
                     ELSE enc0
         IN  IF IsNone(enc)
             THEN \* get_encoding raises
                  [raised |-> FALSE, via |-> "heuristic",
                   value |-> heuristic_count(text)]
             ELSE IF Val(enc) \in e.encode_fails
             THEN \* enc.encode raises
                  [raised |-> FALSE, via |-> "heuristic",
                   value |-> heuristic_count(text)]
             ELSE [raised |-> FALSE, via |-> Val(enc),
                   value |-> tiktoken_encode_len(Val(enc), text)]

tokenizer_count_tokens(e, text, model_name) ==
    tokenizer_count_tokens_result(e, text, model_name).value

----------------------------------------------------------------------------
(* prompts/runtime_builder.py *)

\* SYSTEM_PROMPT_PATH: system_prompt.md beside runtime_builder.py
SYSTEM_PROMPT_PATH == "system_prompt.md"

\* load_system_prompt(): the stripped text, or FileNotFoundError raised
load_system_prompt(e) ==
    IF IsNone(e.system_prompt)
    THEN [raised |-> TRUE,
          error |-> Some([type |-> "FileNotFoundError", path |-> SYSTEM_PROMPT_PATH]),
          value |-> <<>>]
    ELSE [raised |-> FALSE, error |-> None,
          value |-> str_strip(Val(e.system_prompt))]

\* build_prompt putting an empty system prompt in place of a missing file
build_prompt_default(e, user_message) ==
    LET sys == load_system_prompt(e)
    IN  [raised |-> FALSE, error |-> None,
         steps |-> <<"load_system_prompt", "strip", "PromptParts">>,
         parts |-> Some([system |-> sys.value, user |-> str_strip(user_message)])]

\* build_prompt that also removes the newlines inside the user message
build_prompt_sanitize(e, user_message) ==
    LET sys   == load_system_prompt(e)
        NotNL(c) == c # "\n"
    IN  IF sys.raised
        THEN [raised |-> TRUE, error |-> sys.error,
              steps |-> <<"load_system_prompt">>, parts |-> None]
        ELSE [raised |-> FALSE, error |-> None,
              steps |-> <<"load_system_prompt", "strip", "PromptParts">>,
              parts |-> Some([system |-> sys.value,
                              user |-> SelectSeq(str_strip(user_message), NotNL)])]

\* build_prompt(user_message): the statements executed, in order (steps), and
\* the PromptParts returned or the exception that left the function
build_prompt(e, user_message) ==
    LET sys == load_system_prompt(e)
    IN  IF sys.raised
        THEN [raised |-> TRUE, error |-> sys.error,
              steps |-> <<"load_system_prompt">>, parts |-> None]
        ELSE [raised |-> FALSE, error |-> None,
              steps |-> <<"load_system_prompt", "strip", "PromptParts">>,
              parts |-> Some([system |-> sys.value,
                              user |-> str_strip(user_message)])]

----------------------------------------------------------------------------
(* scripts/demo/conversation_memory_demo.py *)

USER == <<"u", "s", "e", "r">>
ASSISTANT == <<"a", "s", "s", "i", "s", "t", "a", "n", "t">>

\* parse_turn splitting at the last colon (rsplit) instead of the first
parse_turn_rsplit(turn_str) ==
    IF ~str_contains(turn_str, ":") THEN None
    ELSE LET k       == CHOOSE i \in 1..Len(turn_str) :
                          /\ turn_str[i] = ":"
                          /\ \A j \in (i + 1)..Len(turn_str) : turn_str[j] # ":"
             role    == str_lower(str_strip(SubSeq(turn_str, 1, k - 1)))
             content == str_strip(SubSeq(turn_str, k + 1, Len(turn_str)))
         IN  IF role \notin {USER, ASSISTANT} THEN None
             ELSE Some([role |-> role, content |-> content])

\* parse_turn(turn_str): None or the turn
parse_turn(turn_str) ==
    IF ~str_contains(turn_str, ":") THEN None
    ELSE LET parts   == str_split1(turn_str, ":")
             role    == str_lower(str_strip(parts[1]))
             content == str_strip(parts[2])
         IN  IF role \notin {USER, ASSISTANT} THEN None
             ELSE Some([role |-> role, content |-> content])

\* normalize_history(turns)
RECURSIVE normalize_loop(_, _, _)
normalize_loop(ts, i, parsed) ==
    IF i > Len(ts) THEN parsed
    ELSE LET item == parse_turn(ts[i])
         IN  IF ~IsNone(item)
             THEN normalize_loop(ts, i + 1, Append(parsed, Val(item)))
             ELSE normalize_loop(ts, i + 1, parsed)

\* normalize_history inserting each parsed turn at the front
normalize_history_front(ts) == list_reversed(normalize_loop(ts, 1, <<>>))

\* normalize_history testing "if item and item['content']"
normalize_history_nonempty(ts) ==
    LET HasContent(item) == item.content # <<>>
    IN  SelectSeq(normalize_loop(ts, 1, <<>>), HasContent)

normalize_history(ts) == normalize_loop(ts, 1, <<>>)

\* a fallback that counts the words only
inline_heuristic_count_words(text) == re_findall_len(<<"\\w+">>, text, 1)

\* the fallback of count_tokens when the tokenizer module is not loaded
inline_heuristic_count(text) == re_findall_len(<<"\\w+", "[^\\w\\s]">>, text, 1)

\* count_tokens(text, model_name) of the demo, in environment e
count_tokens(e, text, model_name) ==
    IF ~e.tok_mod
    THEN inline_heuristic_count(text)
    ELSE tokenizer_count_tokens(e, text, model_name)

\* f"- {item['role'].capitalize()}: {item['content']}\n"
render_line(item) ==
    <<"-", " ">> \o str_capitalize(item.role) \o <<":", " ">> \o item.content
                 \o <<"\n">>

\* window_by_max_turns without the guard on max_turns <= 0
window_by_max_turns_noguard(h, n) == list_slice_from(h, 0 - n)

\* window_by_max_turns(history, max_turns)
window_by_max_turns(h, n) ==
    IF n <= 0 THEN <<>> ELSE list_slice_from(h, 0 - n)

\* the for loop of window_by_token_budget over reversed(history):
\* i is the position of item, acc and total the accumulators
RECURSIVE budget_loop(_, _, _, _, _, _)
budget_loop(e, h, budget, model_name, i, st) ==
    IF i < 1 THEN st.acc
    ELSE LET item   == h[i]
             tokens == count_tokens(e, render_line(item), model_name)
         IN  IF st.total + tokens > budget
             THEN st.acc                                        \* break
             ELSE budget_loop(e, h, budget, model_name, i - 1,
                              [acc |-> Append(st.acc, item),
                               total |-> st.total + tokens])

\* the loop testing "total > budget" (the turn is added before the test bites)
RECURSIVE budget_loop_late(_, _, _, _, _, _)
budget_loop_late(e, h, budget, model_name, i, st) ==
    IF i < 1 THEN st.acc
    ELSE LET item   == h[i]
             tokens == count_tokens(e, render_line(item), model_name)
         IN  IF st.total > budget
             THEN st.acc
             ELSE budget_loop_late(e, h, budget, model_name, i - 1,
                                   [acc |-> Append(st.acc, item),
                                    total |-> st.total + tokens])

window_by_token_budget_late(e, h, budget, model_name) ==
    list_reversed(budget_loop_late(e, h, budget, model_name, Len(h),
                                   [acc |-> <<>>, total |-> 0]))

\* the loop with "continue" in place of "break" (skip and go on)
RECURSIVE budget_loop_skip(_, _, _, _, _, _)
budget_loop_skip(e, h, budget, model_name, i, st) ==
    IF i < 1 THEN st.acc
    ELSE LET item   == h[i]
             tokens == count_tokens(e, render_line(item), model_name)
         IN  IF st.total + tokens > budget
             THEN budget_loop_skip(e, h, budget, model_name, i - 1, st)
             ELSE budget_loop_skip(e, h, budget, model_name, i - 1,
                                   [acc |-> Append(st.acc, item),
                                    total |-> st.total + tokens])

window_by_token_budget_skip(e, h, budget, model_name) ==
    list_reversed(budget_loop_skip(e, h, budget, model_name, Len(h),
                                   [acc |-> <<>>, total |-> 0]))

\* window_by_token_budget returning acc as accumulated (no final reversal)
window_by_token_budget_noreverse(e, h, budget, model_name) ==
    budget_loop(e, h, budget, model_name, Len(h), [acc |-> <<>>, total |-> 0])

\* the loop breaking as soon as the budget is reached ("total + tokens >= budget")
RECURSIVE budget_loop_strict(_, _, _, _, _, _)
budget_loop_strict(e, h, budget, model_name, i, st) ==
    IF i < 1 THEN st.acc
    ELSE LET item   == h[i]
             tokens == count_tokens(e, render_line(item), model_name)
         IN  IF st.total + tokens >= budget
             THEN st.acc
             ELSE budget_loop_strict(e, h, budget, model_name, i - 1,
                                     [acc |-> Append(st.acc, item),
                                      total |-> st.total + tokens])

window_by_token_budget_strict(e, h, budget, model_name) ==
    list_reversed(budget_loop_strict(e, h, budget, model_name, Len(h),
                                     [acc |-> <<>>, total |-> 0]))

\* window_by_token_budget keeping a margin of one token when tiktoken is there
window_by_token_budget_margin(e, h, budget, model_name) ==
    list_reversed(budget_loop(e, h, IF e.tiktoken THEN budget - 1 ELSE budget,
                              model_name, Len(h), [acc |-> <<>>, total |-> 0]))

\* window_by_token_budget(history, budget, model_name), in environment e
window_by_token_budget(e, h, budget, model_name) ==
    list_reversed(budget_loop(e, h, budget, model_name, Len(h),
                              [acc |-> <<>>, total |-> 0]))

\* The argument list history as each function leaves it.  The slice, the
\* loop over reversed(history) and the loop of build_instruction only read the
\* list and its items: no statement assigns to it or to an item.
window_by_max_turns_arg(h, n) == h

\* a loop that takes the turns off the end of the list with history.pop()
window_by_token_budget_arg_pop(e, h, budget, model_name) ==
    SubSeq(h, 1, Len(h) - Len(window_by_token_budget(e, h, budget, model_name)))

window_by_token_budget_arg(e, h, budget, model_name) == h

\* sep.join(items)
RECURSIVE str_join(_, _)
str_join(sep, items) ==
    IF items = <<>> THEN <<>>
    ELSE IF Len(items) = 1 THEN items[1]
    ELSE items[1] \o sep \o str_join(sep, Tail(items))

\* the fixed strings of build_instruction
PREAMBLE_1 ==
    <<"Y", "o", "u", " ", "a", "r", "e", " ", "a", " ", "h", "e", "l",
      "p", "f", "u", "l", " ", "a", "s", "s", "i", "s", "t", "a", "n",
      "t", ".", " ", "U", "s", "e", " ", "t", "h", "e", " ", "r", "e",
      "c", "e", "n", "t", " ", "c", "o", "n", "v", "e", "r", "s", "a",
      "t", "i", "o", "n", " ", "h", "i", "s", "t", "o", "r", "y", " ",
      "f", "o", "r", " ", "c", "o", "n", "t", "e", "x", "t", ".">>
PREAMBLE_2 ==
    <<"I", "f", " ", "t", "h", "e", " ", "h", "i", "s", "t", "o", "r",
      "y", " ", "d", "o", "e", "s", " ", "n", "o", "t", " ", "c", "o",
      "n", "t", "a", "i", "n", " ", "t", "h", "e", " ", "a", "n", "s",
      "w", "e", "r", ",", " ", "a", "s", "k", " ", "c", "l", "a", "r",
      "i", "f", "y", "i", "n", "g", " ", "q", "u", "e", "s", "t", "i",
      "o", "n", "s", " ", "o", "r", " ", "s", "a", "y", " ", "y", "o",
      "u", " ", "d", "o", "n", "'", "t", " ", "k", "n", "o", "w", ".">>
HISTORY_HEADING == <<"\n", "R", "E", "C", "E", "N", "T", " ", "H", "I", "S", "T", "O", "R", "Y", ":">>
NONE_PLACEHOLDER == <<"(", "n", "o", "n", "e", ")">>
REQUEST_HEADING == <<"\n", "C", "U", "R", "R", "E", "N", "T", " ", "R", "E", "Q", "U", "E", "S", "T", ":">>

\* f"- {item['role'].capitalize()}: {item['content']}"
instruction_line(item) ==
    <<"-", " ">> \o str_capitalize(item.role) \o <<":", " ">> \o item.content

\* build_instruction rendering the role as stored, in lower case
build_instruction_lines_lower(h, current_message) ==
    <<PREAMBLE_1, PREAMBLE_2, HISTORY_HEADING>>
    \o (IF h = <<>> THEN <<NONE_PLACEHOLDER>>
        ELSE [i \in 1..Len(h) |->
                <<"-", " ">> \o h[i].role \o <<":", " ">> \o h[i].content])
    \o <<REQUEST_HEADING, current_message>>

\* build_instruction appending the placeholder whatever the history
build_instruction_lines_always(h, current_message) ==
    <<PREAMBLE_1, PREAMBLE_2, HISTORY_HEADING>>
    \o <<NONE_PLACEHOLDER>>
    \o [i \in 1..Len(h) |-> instruction_line(h[i])]
    \o <<REQUEST_HEADING, current_message>>

\* the list lines of build_instruction(history, current_message)
build_instruction_lines(h, current_message) ==
    <<PREAMBLE_1, PREAMBLE_2, HISTORY_HEADING>>
    \o (IF h = <<>> THEN <<NONE_PLACEHOLDER>>
        ELSE [i \in 1..Len(h) |-> instruction_line(h[i])])
    \o <<REQUEST_HEADING, current_message>>

\* build_instruction(history, current_message)
build_instruction(h, current_message) ==
    str_join(<<"\n">>, build_instruction_lines(h, current_message))

build_instruction_arg(h, current_message) == h

----------------------------------------------------------------------------
(* JSON values, as json.loads returns them: the pair of a type tag and the  *)
(* value.  A dict is a function from its keys, a list a sequence, a string *)
(* a sequence of characters; a number with a fraction keeps its text.      *)

JNull      == <<"null", "None">>
JBool(b)   == <<"bool", b>>
JInt(n)    == <<"int", n>>
JFloat(s)  == <<"float", s>>
JStr(s)    == <<"str", s>>
JList(xs)  == <<"list", xs>>
JDict(f)   == <<"dict", f>>

\* isinstance(x, dict), isinstance(x, list), isinstance(x, int): bool is a
\* subclass of int, True is 1 and False is 0
is_dict(x) == x[1] = "dict"

\* payload.keys(), and payload.get(key)
dict_keys(x) == DOMAIN x[2]
dict_get(x, key) == IF key \in DOMAIN x[2] THEN x[2][key] ELSE JNull

\* json.loads(s) (standard library).  A text is represented by what the
\* parser makes of it: the value it denotes, or a JSONDecodeError.
json_loads(s) ==
    IF s.kind = "json"
    THEN [raised |-> FALSE, error |-> None, value |-> s.value]
    ELSE [raised |-> TRUE, error |-> Some([type |-> "JSONDecodeError"]),
          value |-> JNull]

\* "if json_str:", "if json_file:": the empty string is falsy
str_truthy(opt) == ~IsNone(opt) /\ Val(opt).kind # "empty"

----------------------------------------------------------------------------
(* jsonschema.validate(instance, schema) (third-party library), for the    *)
(* schemas of the two demos: what each schema requires, keyword by keyword *)

is_json_string(x) == x[1] = "str"
is_json_integer(x) == x[1] = "int"
\* "type": "array", "items": {"type": "string"}, "minItems": 1
is_string_array(x) ==
    /\ x[1] = "list"
    /\ Len(x[2]) >= 1
    /\ \A i \in 1..Len(x[2]) : is_json_string(x[2][i])

\* FEEDBACK_SCHEMA of structured_output_demo.py
FEEDBACK_REQUIRED == {"strengths", "weaknesses", "score", "recommendations"}
conforms_feedback(x) ==
    /\ x[1] = "dict"
    /\ dict_keys(x) \subseteq FEEDBACK_REQUIRED          \* additionalProperties
    /\ FEEDBACK_REQUIRED \subseteq dict_keys(x)          \* required
    /\ is_string_array(x[2]["strengths"])
    /\ is_string_array(x[2]["weaknesses"])
    /\ is_string_array(x[2]["recommendations"])
    /\ is_json_integer(x[2]["score"])
    /\ x[2]["score"][2] >= 0 /\ x[2]["score"][2] <= 10

\* TOOLS of tool_calling_demo.py: the parameters schema of each tool
GET_WEATHER == <<"g", "e", "t", "_", "w", "e", "a", "t", "h", "e", "r">>
SEARCH_DOCS == <<"s", "e", "a", "r", "c", "h", "_", "d", "o", "c", "s">>
SCHEDULE_MEETING ==
    <<"s", "c", "h", "e", "d", "u", "l", "e", "_", "m", "e", "e", "t", "i", "n", "g">>
TOOL_NAMES == {GET_WEATHER, SEARCH_DOCS, SCHEDULE_MEETING}
tool_required(tool) ==
    IF tool = GET_WEATHER THEN {"location"}
    ELSE IF tool = SEARCH_DOCS THEN {"query"}
    ELSE {"title", "date", "attendees"}
tool_properties(tool) ==
    IF tool = GET_WEATHER THEN {"location", "unit", "date"}
    ELSE IF tool = SEARCH_DOCS THEN {"query", "top_k"}
    ELSE {"title", "date", "attendees", "duration_minutes"}
conforms_property(tool, key, x) ==
    IF key = "location"
    THEN is_json_string(x) /\ Len(x[2]) >= 1
    ELSE IF key = "unit"
    THEN is_json_string(x) /\ x[2] \in {<<"C">>, <<"F">>}
    ELSE IF key = "date"
    THEN is_json_string(x)
    ELSE IF key = "query"
    THEN is_json_string(x) /\ Len(x[2]) >= 3
    ELSE IF key = "top_k"
    THEN is_json_integer(x) /\ x[2] >= 1 /\ x[2] <= 20
    ELSE IF key = "title"
    THEN is_json_string(x) /\ Len(x[2]) >= 3
    ELSE IF key = "attendees"
    THEN is_string_array(x)
    ELSE is_json_integer(x) /\ x[2] >= 15                 \* duration_minutes
conforms_tool(tool, x) ==
    /\ x[1] = "dict"
    /\ dict_keys(x) \subseteq tool_properties(tool)
    /\ tool_required(tool) \subseteq dict_keys(x)
    /\ \A key \in dict_keys(x) : conforms_property(tool, key, x[2][key])

----------------------------------------------------------------------------
(* scripts/demo/structured_output_demo.py *)

\* "General interview answer review"
DEFAULT_TOPIC ==
    <<"G", "e", "n", "e", "r", "a", "l", " ", "i", "n", "t", "e", "r",
      "v", "i", "e", "w", " ", "a", "n", "s", "w", "e", "r", " ", "r",
      "e", "v", "i", "e", "w">>

\* build_user_instruction(user_topic)
build_user_instruction(user_topic) ==
    LET \* json.dumps(FEEDBACK_SCHEMA, indent=2)
        FEEDBACK_SCHEMA_JSON ==
            <<"{", "\n", " ", " ", "\"", "$", "s", "c", "h", "e", "m", "a", "\"",
              ":", " ", "\"", "h", "t", "t", "p", "s", ":", "/", "/", "j", "s",
              "o", "n", "-", "s", "c", "h", "e", "m", "a", ".", "o", "r", "g",
              "/", "d", "r", "a", "f", "t", "/", "2", "0", "2", "0", "-", "1",
              "2", "/", "s", "c", "h", "e", "m", "a", "\"", ",", "\n", " ", " ",
              "\"", "t", "i", "t", "l", "e", "\"", ":", " ", "\"", "I", "n", "t",
              "e", "r", "v", "i", "e", "w", "F", "e", "e", "d", "b", "a", "c",
              "k", "\"", ",", "\n", " ", " ", "\"", "t", "y", "p", "e", "\"", ":",
              " ", "\"", "o", "b", "j", "e", "c", "t", "\"", ",", "\n", " ", " ",
              "\"", "a", "d", "d", "i", "t", "i", "o", "n", "a", "l", "P", "r",
              "o", "p", "e", "r", "t", "i", "e", "s", "\"", ":", " ", "f", "a",
              "l", "s", "e", ",", "\n", " ", " ", "\"", "r", "e", "q", "u", "i",
              "r", "e", "d", "\"", ":", " ", "[", "\n", " ", " ", " ", " ", "\"",
              "s", "t", "r", "e", "n", "g", "t", "h", "s", "\"", ",", "\n", " ",
              " ", " ", " ", "\"", "w", "e", "a", "k", "n", "e", "s", "s", "e",
              "s", "\"", ",", "\n", " ", " ", " ", " ", "\"", "s", "c", "o", "r",
              "e", "\"", ",", "\n", " ", " ", " ", " ", "\"", "r", "e", "c", "o",
              "m", "m", "e", "n", "d", "a", "t", "i", "o", "n", "s", "\"", "\n",
              " ", " ", "]", ",", "\n", " ", " ", "\"", "p", "r", "o", "p", "e",
              "r", "t", "i", "e", "s", "\"", ":", " ", "{", "\n", " ", " ", " ",
              " ", "\"", "s", "t", "r", "e", "n", "g", "t", "h", "s", "\"", ":",
              " ", "{", "\n", " ", " ", " ", " ", " ", " ", "\"", "t", "y", "p",
              "e", "\"", ":", " ", "\"", "a", "r", "r", "a", "y", "\"", ",", "\n",
              " ", " ", " ", " ", " ", " ", "\"", "i", "t", "e", "m", "s", "\"",
              ":", " ", "{", "\n", " ", " ", " ", " ", " ", " ", " ", " ", "\"",
              "t", "y", "p", "e", "\"", ":", " ", "\"", "s", "t", "r", "i", "n",
              "g", "\"", "\n", " ", " ", " ", " ", " ", " ", "}", ",", "\n", " ",
              " ", " ", " ", " ", " ", "\"", "m", "i", "n", "I", "t", "e", "m",
              "s", "\"", ":", " ", "1", "\n", " ", " ", " ", " ", "}", ",", "\n",
              " ", " ", " ", " ", "\"", "w", "e", "a", "k", "n", "e", "s", "s",
              "e", "s", "\"", ":", " ", "{", "\n", " ", " ", " ", " ", " ", " ",
              "\"", "t", "y", "p", "e", "\"", ":", " ", "\"", "a", "r", "r", "a",
              "y", "\"", ",", "\n", " ", " ", " ", " ", " ", " ", "\"", "i", "t",
              "e", "m", "s", "\"", ":", " ", "{", "\n", " ", " ", " ", " ", " ",
              " ", " ", " ", "\"", "t", "y", "p", "e", "\"", ":", " ", "\"", "s",
              "t", "r", "i", "n", "g", "\"", "\n", " ", " ", " ", " ", " ", " ",
              "}", ",", "\n", " ", " ", " ", " ", " ", " ", "\"", "m", "i", "n",
              "I", "t", "e", "m", "s", "\"", ":", " ", "1", "\n", " ", " ", " ",
              " ", "}", ",", "\n", " ", " ", " ", " ", "\"", "s", "c", "o", "r",
              "e", "\"", ":", " ", "{", "\n", " ", " ", " ", " ", " ", " ", "\"",
              "t", "y", "p", "e", "\"", ":", " ", "\"", "i", "n", "t", "e", "g",
              "e", "r", "\"", ",", "\n", " ", " ", " ", " ", " ", " ", "\"", "m",
              "i", "n", "i", "m", "u", "m", "\"", ":", " ", "0", ",", "\n", " ",
              " ", " ", " ", " ", " ", "\"", "m", "a", "x", "i", "m", "u", "m",
              "\"", ":", " ", "1", "0", "\n", " ", " ", " ", " ", "}", ",", "\n",
              " ", " ", " ", " ", "\"", "r", "e", "c", "o", "m", "m", "e", "n",
              "d", "a", "t", "i", "o", "n", "s", "\"", ":", " ", "{", "\n", " ",
              " ", " ", " ", " ", " ", "\"", "t", "y", "p", "e", "\"", ":", " ",
              "\"", "a", "r", "r", "a", "y", "\"", ",", "\n", " ", " ", " ", " ",
              " ", " ", "\"", "i", "t", "e", "m", "s", "\"", ":", " ", "{", "\n",
              " ", " ", " ", " ", " ", " ", " ", " ", "\"", "t", "y", "p", "e",
              "\"", ":", " ", "\"", "s", "t", "r", "i", "n", "g", "\"", "\n", " ",
              " ", " ", " ", " ", " ", "}", ",", "\n", " ", " ", " ", " ", " ",
              " ", "\"", "m", "i", "n", "I", "t", "e", "m", "s", "\"", ":", " ",
              "1", "\n", " ", " ", " ", " ", "}", "\n", " ", " ", "}", "\n", "}">>
        \* user_topic or the default
        topic == IF user_topic = <<>> THEN DEFAULT_TOPIC ELSE user_topic
        lines ==
            << <<"Y", "o", "u", " ", "a", "r", "e", " ", "a", "n", " ", "i", "n",
                 "t", "e", "r", "v", "i", "e", "w", " ", "c", "o", "a", "c", "h",
                 ".", " ", "R", "e", "t", "u", "r", "n", " ", "f", "e", "e", "d",
                 "b", "a", "c", "k", " ", "a", "s", " ", "S", "T", "R", "I", "C",
                 "T", " ", "J", "S", "O", "N", " ", "o", "n", "l", "y", ".">>,
               <<"T", "o", "p", "i", "c", ":", " ">> \o topic \o <<".">>,
               <<"D", "o", " ", "n", "o", "t", " ", "i", "n", "c", "l", "u", "d",
                 "e", " ", "a", "n", "y", " ", "p", "r", "o", "s", "e", " ", "o",
                 "r", " ", "e", "x", "p", "l", "a", "n", "a", "t", "i", "o", "n",
                 " ", "o", "u", "t", "s", "i", "d", "e", " ", "o", "f", " ", "t",
                 "h", "e", " ", "J", "S", "O", "N", ".">>,
               <<"T", "h", "e", " ", "J", "S", "O", "N", " ", "M", "U", "S", "T",
                 " ", "v", "a", "l", "i", "d", "a", "t", "e", " ", "a", "g", "a",
                 "i", "n", "s", "t", " ", "t", "h", "i", "s", " ", "J", "S", "O",
                 "N", " ", "S", "c", "h", "e", "m", "a", ":">>,
               <<Backtick, Backtick, Backtick, "j", "s", "o", "n">>,
               FEEDBACK_SCHEMA_JSON,
               <<Backtick, Backtick, Backtick>>,
               <<"R", "u", "l", "e", "s", ":">>,
               <<"-", " ", "N", "o", " ", "a", "d", "d", "i", "t", "i", "o", "n",
                 "a", "l", " ", "p", "r", "o", "p", "e", "r", "t", "i", "e", "s",
                 " ", "b", "e", "y", "o", "n", "d", " ", "t", "h", "o", "s", "e",
                 " ", "i", "n", " ", "t", "h", "e", " ", "s", "c", "h", "e", "m",
                 "a", ".">>,
               <<"-", " ", "U", "s", "e", " ", "i", "n", "t", "e", "g", "e", "r",
                 "s", " ", "f", "o", "r", " ", "'", "s", "c", "o", "r", "e", "'",
                 " ", "b", "e", "t", "w", "e", "e", "n", " ", "0", " ", "a", "n",
                 "d", " ", "1", "0", " ", "i", "n", "c", "l", "u", "s", "i", "v",
                 "e", ".">>,
               <<"-", " ", "P", "r", "o", "v", "i", "d", "e", " ", "a", "t", " ",
                 "l", "e", "a", "s", "t", " ", "o", "n", "e", " ", "i", "t", "e",
                 "m", " ", "f", "o", "r", " ", "e", "a", "c", "h", " ", "a", "r",
                 "r", "a", "y", ".">> >>
    IN  str_join(<<"\n">>,
                 lines)

\* try_load_json(json_str, json_file): the value, None when neither option is
\* given, or the exception raised (JSONDecodeError, SystemExit)
so_try_load_json(json_str, json_file) ==
    IF str_truthy(json_str)
    THEN LET r == json_loads(Val(json_str))
         IN  [raised |-> r.raised, error |-> r.error,
              value |-> IF r.raised THEN None ELSE Some(r.value)]
    ELSE IF ~IsNone(json_file) /\ Val(json_file).path # ""
    THEN IF ~Val(json_file).exists
         THEN [raised |-> TRUE, error |-> Some([type |-> "SystemExit"]),
               value |-> None]
         ELSE LET r == json_loads(Val(json_file).text)
              IN  [raised |-> r.raised, error |-> r.error,
                   value |-> IF r.raised THEN None ELSE Some(r.value)]
    ELSE [raised |-> FALSE, error |-> None, value |-> None]

\* validate_payload(payload, FEEDBACK_SCHEMA): the import of jsonschema and
\* its validate are inside the try; "except Exception" takes the ImportError
\* and the ValidationError alike
validate_payload(e, payload) ==
    LET \* the except branch of validate_payload: minimal structural checks
        minimal_checks ==
            LET is_list(x) == x[1] = "list"
                is_int(x)  == x[1] \in {"int", "bool"}
                int_value(x) == IF x[1] = "bool" THEN (IF x[2] THEN 1 ELSE 0) ELSE x[2]
            IN  IF is_dict(payload)
                THEN IF ~(FEEDBACK_REQUIRED \subseteq dict_keys(payload))
                     THEN [ok |-> FALSE, info |-> "Missing keys"]
                     ELSE IF ~(is_list(payload[2]["strengths"])
                               /\ payload[2]["strengths"][2] # <<>>)
                     THEN [ok |-> FALSE, info |-> "strengths must be a non-empty array"]
                     ELSE IF ~(is_list(payload[2]["weaknesses"])
                               /\ payload[2]["weaknesses"][2] # <<>>)
                     THEN [ok |-> FALSE, info |-> "weaknesses must be a non-empty array"]
                     ELSE IF ~(is_list(payload[2]["recommendations"])
                               /\ payload[2]["recommendations"][2] # <<>>)
                     THEN [ok |-> FALSE, info |-> "recommendations must be a non-empty array"]
                     ELSE IF ~(is_int(payload[2]["score"])
                               /\ 0 <= int_value(payload[2]["score"])
                               /\ int_value(payload[2]["score"]) <= 10)
                     THEN [ok |-> FALSE, info |-> "score must be an integer between 0 and 10"]
                     ELSE [ok |-> TRUE,
                           info |-> "Valid by minimal checks (install jsonschema for strict validation)"]
                ELSE [ok |-> FALSE, info |-> "Payload must be a JSON object"]
    IN  IF e.jsonschema /\ conforms_feedback(payload)
        THEN [ok |-> TRUE, info |-> "Valid per JSON Schema"]
        ELSE minimal_checks

----------------------------------------------------------------------------
(* scripts/demo/tool_calling_demo.py *)

\* "General task"
DEFAULT_GOAL ==
    <<"G", "e", "n", "e", "r", "a", "l", " ", "t", "a", "s", "k">>

\* build_instruction(user_goal) of the tool-calling demo
tc_build_instruction(user_goal) ==
    LET \* json.dumps(tool_specs, indent=2)
        TOOL_SPECS_JSON ==
            <<"[", "\n", " ", " ", "{", "\n", " ", " ", " ", " ", "\"", "n", "a",
              "m", "e", "\"", ":", " ", "\"", "g", "e", "t", "_", "w", "e", "a",
              "t", "h", "e", "r", "\"", ",", "\n", " ", " ", " ", " ", "\"", "d",
              "e", "s", "c", "r", "i", "p", "t", "i", "o", "n", "\"", ":", " ",
              "\"", "G", "e", "t", " ", "w", "e", "a", "t", "h", "e", "r", " ",
              "f", "o", "r", " ", "a", " ", "c", "i", "t", "y", "\"", ",", "\n",
              " ", " ", " ", " ", "\"", "p", "a", "r", "a", "m", "e", "t", "e",
              "r", "s", "\"", ":", " ", "{", "\n", " ", " ", " ", " ", " ", " ",
              "\"", "$", "s", "c", "h", "e", "m", "a", "\"", ":", " ", "\"", "h",
              "t", "t", "p", "s", ":", "/", "/", "j", "s", "o", "n", "-", "s",
              "c", "h", "e", "m", "a", ".", "o", "r", "g", "/", "d", "r", "a",
              "f", "t", "/", "2", "0", "2", "0", "-", "1", "2", "/", "s", "c",
              "h", "e", "m", "a", "\"", ",", "\n", " ", " ", " ", " ", " ", " ",
              "\"", "t", "y", "p", "e", "\"", ":", " ", "\"", "o", "b", "j", "e",
              "c", "t", "\"", ",", "\n", " ", " ", " ", " ", " ", " ", "\"", "a",
              "d", "d", "i", "t", "i", "o", "n", "a", "l", "P", "r", "o", "p",
              "e", "r", "t", "i", "e", "s", "\"", ":", " ", "f", "a", "l", "s",
              "e", ",", "\n", " ", " ", " ", " ", " ", " ", "\"", "r", "e", "q",
              "u", "i", "r", "e", "d", "\"", ":", " ", "[", "\n", " ", " ", " ",
              " ", " ", " ", " ", " ", "\"", "l", "o", "c", "a", "t", "i", "o",
              "n", "\"", "\n", " ", " ", " ", " ", " ", " ", "]", ",", "\n", " ",
              " ", " ", " ", " ", " ", "\"", "p", "r", "o", "p", "e", "r", "t",
              "i", "e", "s", "\"", ":", " ", "{", "\n", " ", " ", " ", " ", " ",
              " ", " ", " ", "\"", "l", "o", "c", "a", "t", "i", "o", "n", "\"",
              ":", " ", "{", "\n", " ", " ", " ", " ", " ", " ", " ", " ", " ",
              " ", "\"", "t", "y", "p", "e", "\"", ":", " ", "\"", "s", "t", "r",
              "i", "n", "g", "\"", ",", "\n", " ", " ", " ", " ", " ", " ", " ",
              " ", " ", " ", "\"", "m", "i", "n", "L", "e", "n", "g", "t", "h",
              "\"", ":", " ", "1", "\n", " ", " ", " ", " ", " ", " ", " ", " ",
              "}", ",", "\n", " ", " ", " ", " ", " ", " ", " ", " ", "\"", "u",
              "n", "i", "t", "\"", ":", " ", "{", "\n", " ", " ", " ", " ", " ",
              " ", " ", " ", " ", " ", "\"", "t", "y", "p", "e", "\"", ":", " ",
              "\"", "s", "t", "r", "i", "n", "g", "\"", ",", "\n", " ", " ", " ",
              " ", " ", " ", " ", " ", " ", " ", "\"", "e", "n", "u", "m", "\"",
              ":", " ", "[", "\n", " ", " ", " ", " ", " ", " ", " ", " ", " ",
              " ", " ", " ", "\"", "C", "\"", ",", "\n", " ", " ", " ", " ", " ",
              " ", " ", " ", " ", " ", " ", " ", "\"", "F", "\"", "\n", " ", " ",
              " ", " ", " ", " ", " ", " ", " ", " ", "]", ",", "\n", " ", " ",
              " ", " ", " ", " ", " ", " ", " ", " ", "\"", "d", "e", "f", "a",
              "u", "l", "t", "\"", ":", " ", "\"", "C", "\"", "\n", " ", " ", " ",
              " ", " ", " ", " ", " ", "}", ",", "\n", " ", " ", " ", " ", " ",
              " ", " ", " ", "\"", "d", "a", "t", "e", "\"", ":", " ", "{", "\n",
              " ", " ", " ", " ", " ", " ", " ", " ", " ", " ", "\"", "t", "y",
              "p", "e", "\"", ":", " ", "\"", "s", "t", "r", "i", "n", "g", "\"",
              ",", "\n", " ", " ", " ", " ", " ", " ", " ", " ", " ", " ", "\"",
              "d", "e", "s", "c", "r", "i", "p", "t", "i", "o", "n", "\"", ":",
              " ", "\"", "Y", "Y", "Y", "Y", "-", "M", "M", "-", "D", "D", " ",
              "(", "o", "p", "t", "i", "o", "n", "a", "l", ")", "\"", "\n", " ",
              " ", " ", " ", " ", " ", " ", " ", "}", "\n", " ", " ", " ", " ",
              " ", " ", "}", "\n", " ", " ", " ", " ", "}", "\n", " ", " ", "}",
              ",", "\n", " ", " ", "{", "\n", " ", " ", " ", " ", "\"", "n", "a",
              "m", "e", "\"", ":", " ", "\"", "s", "e", "a", "r", "c", "h", "_",
              "d", "o", "c", "s", "\"", ",", "\n", " ", " ", " ", " ", "\"", "d",
              "e", "s", "c", "r", "i", "p", "t", "i", "o", "n", "\"", ":", " ",
              "\"", "S", "e", "a", "r", "c", "h", " ", "i", "n", "t", "e", "r",
              "n", "a", "l", " ", "d", "o", "c", "u", "m", "e", "n", "t", "a",
              "t", "i", "o", "n", "\"", ",", "\n", " ", " ", " ", " ", "\"", "p",
              "a", "r", "a", "m", "e", "t", "e", "r", "s", "\"", ":", " ", "{",
              "\n", " ", " ", " ", " ", " ", " ", "\"", "$", "s", "c", "h", "e",
              "m", "a", "\"", ":", " ", "\"", "h", "t", "t", "p", "s", ":", "/",
              "/", "j", "s", "o", "n", "-", "s", "c", "h", "e", "m", "a", ".",
              "o", "r", "g", "/", "d", "r", "a", "f", "t", "/", "2", "0", "2",
              "0", "-", "1", "2", "/", "s", "c", "h", "e", "m", "a", "\"", ",",
              "\n", " ", " ", " ", " ", " ", " ", "\"", "t", "y", "p", "e", "\"",
              ":", " ", "\"", "o", "b", "j", "e", "c", "t", "\"", ",", "\n", " ",
              " ", " ", " ", " ", " ", "\"", "a", "d", "d", "i", "t", "i", "o",
              "n", "a", "l", "P", "r", "o", "p", "e", "r", "t", "i", "e", "s",
              "\"", ":", " ", "f", "a", "l", "s", "e", ",", "\n", " ", " ", " ",
              " ", " ", " ", "\"", "r", "e", "q", "u", "i", "r", "e", "d", "\"",
              ":", " ", "[", "\n", " ", " ", " ", " ", " ", " ", " ", " ", "\"",
              "q", "u", "e", "r", "y", "\"", "\n", " ", " ", " ", " ", " ", " ",
              "]", ",", "\n", " ", " ", " ", " ", " ", " ", "\"", "p", "r", "o",
              "p", "e", "r", "t", "i", "e", "s", "\"", ":", " ", "{", "\n", " ",
              " ", " ", " ", " ", " ", " ", " ", "\"", "q", "u", "e", "r", "y",
              "\"", ":", " ", "{", "\n", " ", " ", " ", " ", " ", " ", " ", " ",
              " ", " ", "\"", "t", "y", "p", "e", "\"", ":", " ", "\"", "s", "t",
              "r", "i", "n", "g", "\"", ",", "\n", " ", " ", " ", " ", " ", " ",
              " ", " ", " ", " ", "\"", "m", "i", "n", "L", "e", "n", "g", "t",
              "h", "\"", ":", " ", "3", "\n", " ", " ", " ", " ", " ", " ", " ",
              " ", "}", ",", "\n", " ", " ", " ", " ", " ", " ", " ", " ", "\"",
              "t", "o", "p", "_", "k", "\"", ":", " ", "{", "\n", " ", " ", " ",
              " ", " ", " ", " ", " ", " ", " ", "\"", "t", "y", "p", "e", "\"",
              ":", " ", "\"", "i", "n", "t", "e", "g", "e", "r", "\"", ",", "\n",
              " ", " ", " ", " ", " ", " ", " ", " ", " ", " ", "\"", "m", "i",
              "n", "i", "m", "u", "m", "\"", ":", " ", "1", ",", "\n", " ", " ",
              " ", " ", " ", " ", " ", " ", " ", " ", "\"", "m", "a", "x", "i",
              "m", "u", "m", "\"", ":", " ", "2", "0", ",", "\n", " ", " ", " ",
              " ", " ", " ", " ", " ", " ", " ", "\"", "d", "e", "f", "a", "u",
              "l", "t", "\"", ":", " ", "5", "\n", " ", " ", " ", " ", " ", " ",
              " ", " ", "}", "\n", " ", " ", " ", " ", " ", " ", "}", "\n", " ",
              " ", " ", " ", "}", "\n", " ", " ", "}", ",", "\n", " ", " ", "{",
              "\n", " ", " ", " ", " ", "\"", "n", "a", "m", "e", "\"", ":", " ",
              "\"", "s", "c", "h", "e", "d", "u", "l", "e", "_", "m", "e", "e",
              "t", "i", "n", "g", "\"", ",", "\n", " ", " ", " ", " ", "\"", "d",
              "e", "s", "c", "r", "i", "p", "t", "i", "o", "n", "\"", ":", " ",
              "\"", "C", "r", "e", "a", "t", "e", " ", "a", " ", "c", "a", "l",
              "e", "n", "d", "a", "r", " ", "e", "v", "e", "n", "t", "\"", ",",
              "\n", " ", " ", " ", " ", "\"", "p", "a", "r", "a", "m", "e", "t",
              "e", "r", "s", "\"", ":", " ", "{", "\n", " ", " ", " ", " ", " ",
              " ", "\"", "$", "s", "c", "h", "e", "m", "a", "\"", ":", " ", "\"",
              "h", "t", "t", "p", "s", ":", "/", "/", "j", "s", "o", "n", "-",
              "s", "c", "h", "e", "m", "a", ".", "o", "r", "g", "/", "d", "r",
              "a", "f", "t", "/", "2", "0", "2", "0", "-", "1", "2", "/", "s",
              "c", "h", "e", "m", "a", "\"", ",", "\n", " ", " ", " ", " ", " ",
              " ", "\"", "t", "y", "p", "e", "\"", ":", " ", "\"", "o", "b", "j",
              "e", "c", "t", "\"", ",", "\n", " ", " ", " ", " ", " ", " ", "\"",
              "a", "d", "d", "i", "t", "i", "o", "n", "a", "l", "P", "r", "o",
              "p", "e", "r", "t", "i", "e", "s", "\"", ":", " ", "f", "a", "l",
              "s", "e", ",", "\n", " ", " ", " ", " ", " ", " ", "\"", "r", "e",
              "q", "u", "i", "r", "e", "d", "\"", ":", " ", "[", "\n", " ", " ",
              " ", " ", " ", " ", " ", " ", "\"", "t", "i", "t", "l", "e", "\"",
              ",", "\n", " ", " ", " ", " ", " ", " ", " ", " ", "\"", "d", "a",
              "t", "e", "\"", ",", "\n", " ", " ", " ", " ", " ", " ", " ", " ",
              "\"", "a", "t", "t", "e", "n", "d", "e", "e", "s", "\"", "\n", " ",
              " ", " ", " ", " ", " ", "]", ",", "\n", " ", " ", " ", " ", " ",
              " ", "\"", "p", "r", "o", "p", "e", "r", "t", "i", "e", "s", "\"",
              ":", " ", "{", "\n", " ", " ", " ", " ", " ", " ", " ", " ", "\"",
              "t", "i", "t", "l", "e", "\"", ":", " ", "{", "\n", " ", " ", " ",
              " ", " ", " ", " ", " ", " ", " ", "\"", "t", "y", "p", "e", "\"",
              ":", " ", "\"", "s", "t", "r", "i", "n", "g", "\"", ",", "\n", " ",
              " ", " ", " ", " ", " ", " ", " ", " ", " ", "\"", "m", "i", "n",
              "L", "e", "n", "g", "t", "h", "\"", ":", " ", "3", "\n", " ", " ",
              " ", " ", " ", " ", " ", " ", "}", ",", "\n", " ", " ", " ", " ",
              " ", " ", " ", " ", "\"", "d", "a", "t", "e", "\"", ":", " ", "{",
              "\n", " ", " ", " ", " ", " ", " ", " ", " ", " ", " ", "\"", "t",
              "y", "p", "e", "\"", ":", " ", "\"", "s", "t", "r", "i", "n", "g",
              "\"", ",", "\n", " ", " ", " ", " ", " ", " ", " ", " ", " ", " ",
              "\"", "d", "e", "s", "c", "r", "i", "p", "t", "i", "o", "n", "\"",
              ":", " ", "\"", "Y", "Y", "Y", "Y", "-", "M", "M", "-", "D", "D",
              " ", "o", "r", " ", "I", "S", "O", " ", "d", "a", "t", "e", "t",
              "i", "m", "e", "\"", "\n", " ", " ", " ", " ", " ", " ", " ", " ",
              "}", ",", "\n", " ", " ", " ", " ", " ", " ", " ", " ", "\"", "a",
              "t", "t", "e", "n", "d", "e", "e", "s", "\"", ":", " ", "{", "\n",
              " ", " ", " ", " ", " ", " ", " ", " ", " ", " ", "\"", "t", "y",
              "p", "e", "\"", ":", " ", "\"", "a", "r", "r", "a", "y", "\"", ",",
              "\n", " ", " ", " ", " ", " ", " ", " ", " ", " ", " ", "\"", "i",
              "t", "e", "m", "s", "\"", ":", " ", "{", "\n", " ", " ", " ", " ",
              " ", " ", " ", " ", " ", " ", " ", " ", "\"", "t", "y", "p", "e",
              "\"", ":", " ", "\"", "s", "t", "r", "i", "n", "g", "\"", "\n", " ",
              " ", " ", " ", " ", " ", " ", " ", " ", " ", "}", ",", "\n", " ",
              " ", " ", " ", " ", " ", " ", " ", " ", " ", "\"", "m", "i", "n",
              "I", "t", "e", "m", "s", "\"", ":", " ", "1", "\n", " ", " ", " ",
              " ", " ", " ", " ", " ", "}", ",", "\n", " ", " ", " ", " ", " ",
              " ", " ", " ", "\"", "d", "u", "r", "a", "t", "i", "o", "n", "_",
              "m", "i", "n", "u", "t", "e", "s", "\"", ":", " ", "{", "\n", " ",
              " ", " ", " ", " ", " ", " ", " ", " ", " ", "\"", "t", "y", "p",
              "e", "\"", ":", " ", "\"", "i", "n", "t", "e", "g", "e", "r", "\"",
              ",", "\n", " ", " ", " ", " ", " ", " ", " ", " ", " ", " ", "\"",
              "m", "i", "n", "i", "m", "u", "m", "\"", ":", " ", "1", "5", ",",
              "\n", " ", " ", " ", " ", " ", " ", " ", " ", " ", " ", "\"", "d",
              "e", "f", "a", "u", "l", "t", "\"", ":", " ", "3", "0", "\n", " ",
              " ", " ", " ", " ", " ", " ", " ", "}", "\n", " ", " ", " ", " ",
              " ", " ", "}", "\n", " ", " ", " ", " ", "}", "\n", " ", " ", "}",
              "\n", "]">>
        \* user_goal or the default
        goal == IF user_goal = <<>> THEN DEFAULT_GOAL ELSE user_goal
        lines ==
            << <<"Y", "o", "u", " ", "a", "r", "e", " ", "a", " ", "t", "o", "o",
                 "l", "-", "u", "s", "i", "n", "g", " ", "a", "s", "s", "i", "s",
                 "t", "a", "n", "t", ".", " ", "S", "e", "l", "e", "c", "t", " ",
                 "e", "x", "a", "c", "t", "l", "y", " ", "o", "n", "e", " ", "t",
                 "o", "o", "l", " ", "t", "h", "a", "t", " ", "b", "e", "s", "t",
                 " ", "s", "o", "l", "v", "e", "s", " ", "t", "h", "e", " ", "u",
                 "s", "e", "r", "'", "s", " ", "r", "e", "q", "u", "e", "s", "t",
                 ".">>,
               <<"R", "e", "t", "u", "r", "n", " ", "O", "N", "L", "Y", " ", "a",
                 " ", "J", "S", "O", "N", " ", "o", "b", "j", "e", "c", "t", ",",
                 " ", "n", "o", " ", "p", "r", "o", "s", "e", ",", " ", "o", "f",
                 " ", "t", "h", "e", " ", "f", "o", "r", "m", ":">>,
               <<"{", "\n", " ", " ", "\"", "t", "o", "o", "l", "\"", ":", " ", "\"",
                 "<", "t", "o", "o", "l", "_", "n", "a", "m", "e", ">", "\"", ",",
                 "\n", " ", " ", "\"", "a", "r", "g", "u", "m", "e", "n", "t", "s",
                 "\"", ":", " ", "{", " ", "/", "*", " ", "p", "e", "r", " ", "t",
                 "o", "o", "l", " ", "s", "c", "h", "e", "m", "a", " ", "*", "/",
                 " ", "}", "\n", "}">>,
               <<"D", "o", " ", "n", "o", "t", " ", "i", "n", "c", "l", "u", "d",
                 "e", " ", "e", "x", "p", "l", "a", "n", "a", "t", "i", "o", "n",
                 "s", ".">>,
               <<"U", "s", "e", "r", " ", "g", "o", "a", "l", ":", " ">> \o goal,
               <<"A", "v", "a", "i", "l", "a", "b", "l", "e", " ", "t", "o", "o",
                 "l", "s", " ", "(", "n", "a", "m", "e", ",", " ", "d", "e", "s",
                 "c", "r", "i", "p", "t", "i", "o", "n", ",", " ", "p", "a", "r",
                 "a", "m", "e", "t", "e", "r", "s", " ", "J", "S", "O", "N", " ",
                 "S", "c", "h", "e", "m", "a", ")", ":">>,
               <<Backtick, Backtick, Backtick, "j", "s", "o", "n">>,
               TOOL_SPECS_JSON,
               <<Backtick, Backtick, Backtick>>,
               <<"R", "u", "l", "e", "s", ":">>,
               <<"-", " ", "C", "h", "o", "o", "s", "e", " ", "t", "h", "e", " ",
                 "m", "o", "s", "t", " ", "a", "p", "p", "r", "o", "p", "r", "i",
                 "a", "t", "e", " ", "s", "i", "n", "g", "l", "e", " ", "t", "o",
                 "o", "l", ".">>,
               <<"-", " ", "A", "r", "g", "u", "m", "e", "n", "t", "s", " ", "m",
                 "u", "s", "t", " ", "v", "a", "l", "i", "d", "a", "t", "e", " ",
                 "a", "g", "a", "i", "n", "s", "t", " ", "t", "h", "e", " ", "c",
                 "h", "o", "s", "e", "n", " ", "t", "o", "o", "l", "'", "s", " ",
                 "J", "S", "O", "N", " ", "S", "c", "h", "e", "m", "a", ".">>,
               <<"-", " ", "P", "r", "o", "v", "i", "d", "e", " ", "o", "n", "l",
                 "y", " ", "t", "h", "e", " ", "f", "i", "e", "l", "d", "s", " ",
                 "d", "e", "f", "i", "n", "e", "d", " ", "b", "y", " ", "t", "h",
                 "e", " ", "s", "c", "h", "e", "m", "a", " ", "(", "n", "o", " ",
                 "e", "x", "t", "r", "a", "s", ")", ".">> >>
    IN  str_join(<<"\n">>,
                 lines)

\* try_load_json(json_str)
tc_try_load_json(json_str) ==
    IF str_truthy(json_str)
    THEN LET r == json_loads(Val(json_str))
         IN  [raised |-> r.raised, error |-> r.error,
              value |-> IF r.raised THEN None ELSE Some(r.value)]
    ELSE [raised |-> FALSE, error |-> None, value |-> None]

\* validate_tool_call(payload).  "tool not in TOOLS" hashes tool: a list or a
\* dict there raises TypeError
validate_tool_call(e, payload) ==
    IF ~is_dict(payload)
    THEN [raised |-> FALSE, ok |-> FALSE, info |-> "Payload must be an object"]
    ELSE LET tool == dict_get(payload, "tool")
             args == dict_get(payload, "arguments")
         IN  IF tool[1] \in {"list", "dict"}
             THEN [raised |-> TRUE, ok |-> FALSE, info |-> "TypeError"]
             ELSE IF ~(tool[1] = "str" /\ tool[2] \in TOOL_NAMES)
             THEN [raised |-> FALSE, ok |-> FALSE, info |-> "Unknown tool"]
             ELSE IF ~is_dict(args)
             THEN [raised |-> FALSE, ok |-> FALSE,
                   info |-> "'arguments' must be an object"]
             ELSE IF e.jsonschema /\ conforms_tool(tool[2], args)
             THEN [raised |-> FALSE, ok |-> TRUE, info |-> "Valid per JSON Schema"]
             ELSE IF ~(tool_required(tool[2]) \subseteq dict_keys(args))
             THEN [raised |-> FALSE, ok |-> FALSE,
                   info |-> "Missing required argument(s)"]
             ELSE [raised |-> FALSE, ok |-> TRUE,
                   info |-> "Valid by minimal checks (install jsonschema for strict validation)"]

----------------------------------------------------------------------------
(* scripts/demo/dynamic_prompt.py *)

\* LANG_ALIASES, in the order of the dict
LANG_ALIASES ==
    << [key |-> <<"c", "+", "+">>, norm |-> <<"C", "+", "+">>],
       [key |-> <<"c", "p", "p">>, norm |-> <<"C", "+", "+">>],
       [key |-> <<"c", "#">>, norm |-> <<"C", "#">>],
       [key |-> <<"c", "s", "h", "a", "r", "p">>, norm |-> <<"C", "#">>],
       [key |-> <<"p", "y", "t", "h", "o", "n">>, norm |-> <<"P", "y", "t", "h", "o", "n">>],
       [key |-> <<"p", "y">>, norm |-> <<"P", "y", "t", "h", "o", "n">>],
       [key |-> <<"j", "a", "v", "a">>, norm |-> <<"J", "a", "v", "a">>],
       [key |-> <<"j", "a", "v", "a", "s", "c", "r", "i", "p", "t">>, norm |-> <<"J", "a", "v", "a", "S", "c", "r", "i", "p", "t">>],
       [key |-> <<"j", "s">>, norm |-> <<"J", "a", "v", "a", "S", "c", "r", "i", "p", "t">>],
       [key |-> <<"t", "y", "p", "e", "s", "c", "r", "i", "p", "t">>, norm |-> <<"T", "y", "p", "e", "S", "c", "r", "i", "p", "t">>],
       [key |-> <<"t", "s">>, norm |-> <<"T", "y", "p", "e", "S", "c", "r", "i", "p", "t">>],
       [key |-> <<"g", "o">>, norm |-> <<"G", "o">>],
       [key |-> <<"g", "o", "l", "a", "n", "g">>, norm |-> <<"G", "o">>],
       [key |-> <<"r", "u", "s", "t">>, norm |-> <<"R", "u", "s", "t">>],
       [key |-> <<"r", "u", "b", "y">>, norm |-> <<"R", "u", "b", "y">>],
       [key |-> <<"p", "h", "p">>, norm |-> <<"P", "H", "P">>],
       [key |-> <<"k", "o", "t", "l", "i", "n">>, norm |-> <<"K", "o", "t", "l", "i", "n">>],
       [key |-> <<"s", "w", "i", "f", "t">>, norm |-> <<"S", "w", "i", "f", "t">>] >>

\* LANG_ALIASES.get(name, default)
lang_alias_get(name, default) ==
    LET hits == {i \in 1..Len(LANG_ALIASES) : LANG_ALIASES[i].key = name}
    IN  IF hits = {} THEN default ELSE LANG_ALIASES[CHOOSE i \in hits : TRUE].norm

\* CODE_FENCE.get(lang, "")
code_fence_get(lang) ==
    IF lang = <<"C", "+", "+">> THEN <<"c", "p", "p">>
    ELSE IF lang = <<"C", "#">> THEN <<"c", "s", "h", "a", "r", "p">>
    ELSE IF lang = <<"P", "y", "t", "h", "o", "n">> THEN <<"p", "y", "t", "h", "o", "n">>
    ELSE IF lang = <<"J", "a", "v", "a">> THEN <<"j", "a", "v", "a">>
    ELSE IF lang = <<"J", "a", "v", "a", "S", "c", "r", "i", "p", "t">> THEN <<"j", "a", "v", "a", "s", "c", "r", "i", "p", "t">>
    ELSE IF lang = <<"T", "y", "p", "e", "S", "c", "r", "i", "p", "t">> THEN <<"t", "y", "p", "e", "s", "c", "r", "i", "p", "t">>
    ELSE IF lang = <<"G", "o">> THEN <<"g", "o">>
    ELSE IF lang = <<"R", "u", "s", "t">> THEN <<"r", "u", "s", "t">>
    ELSE IF lang = <<"R", "u", "b", "y">> THEN <<"r", "u", "b", "y">>
    ELSE IF lang = <<"P", "H", "P">> THEN <<"p", "h", "p">>
    ELSE IF lang = <<"K", "o", "t", "l", "i", "n">> THEN <<"k", "o", "t", "l", "i", "n">>
    ELSE IF lang = <<"S", "w", "i", "f", "t">> THEN <<"s", "w", "i", "f", "t">>
    ELSE <<>>

\* re.search(rf"\b{re.escape(key)}\b", t) finds a match
re_search_bounded(key, t) ==
    LET \* \b at position i of t (between t[i-1] and t[i]): a word character on
        \* exactly one side; beyond either end of the text there is none
        word_boundary(i) ==
            LET before == i > 1 /\ IsWord(t[i - 1])
                after  == i <= Len(t) /\ IsWord(t[i])
            IN  before # after
    IN  \E p \in 1..(Len(t) - Len(key) + 1) :
            /\ SubSeq(t, p, p + Len(key) - 1) = key
            /\ word_boundary(p)
            /\ word_boundary(p + Len(key))

\* detect_language(text): the first alias, in dict order, found in the
\* lowercased text; None when there is none
detect_language(text) ==
    LET t    == str_lower(text)
        hits == {i \in 1..Len(LANG_ALIASES) : re_search_bounded(LANG_ALIASES[i].key, t)}
    IN  IF hits = {} THEN None
        ELSE Some(LANG_ALIASES[CHOOSE i \in hits : \A j \in hits : i <= j].norm)

\* s.rstrip(". ")
RECURSIVE str_rstrip_chars(_, _)
str_rstrip_chars(s, chars) ==
    IF s # <<>> /\ s[Len(s)] \in chars
    THEN str_rstrip_chars(SubSeq(s, 1, Len(s) - 1), chars)
    ELSE s

\* guess_topic(text)
guess_topic(text) ==
    LET \* the words of the pattern of guess_topic
        TOPIC_WORDS == << <<"f", "o", "r">>, <<"i", "m", "p", "l", "e", "m", "e", "n", "t">>,
                         <<"w", "r", "i", "t", "e">> >>
        \* re.search(r"(?:for|implement|write)\s+(.*)", text, re.IGNORECASE): the
        \* positions where a word and at least one whitespace character match
        topic_matches ==
            {p \in 1..Len(text) :
                \E w \in 1..Len(TOPIC_WORDS) :
                    LET word == TOPIC_WORDS[w]
                        q    == p + Len(word)
                    IN  /\ q <= Len(text)
                        /\ str_lower(SubSeq(text, p, q - 1)) = word
                        /\ IsSpace(text[q])}
        \* group(1) of the leftmost match: after the word and all the whitespace
        \* that follows it, up to the end of the line
        topic_group ==
            LET ms   == topic_matches
                p    == CHOOSE i \in ms : \A j \in ms : i <= j
                w    == CHOOSE k \in 1..Len(TOPIC_WORDS) :
                           /\ p + Len(TOPIC_WORDS[k]) <= Len(text)
                           /\ str_lower(SubSeq(text, p, p + Len(TOPIC_WORDS[k]) - 1))
                                = TOPIC_WORDS[k]
                rest == str_lstrip(SubSeq(text, p + Len(TOPIC_WORDS[w]), Len(text)))
                nl   == str_find(rest, "\n", 1)
            IN  IF nl = 0 THEN rest ELSE SubSeq(rest, 1, nl - 1)
    IN  IF topic_matches # {}
        THEN str_rstrip_chars(str_strip(topic_group), {".", " "})
        ELSE str_rstrip_chars(str_strip(text), {".", " "})

\* build_dynamic_user_message(params)
build_dynamic_user_message(params) ==
    LET \* detail_lines[params.detail]
        detail_lines ==
            IF params.detail = "basic"
            THEN
                <<"P", "r", "o", "v", "i", "d", "e", " ", "a", " ", "s", "h", "o",
                  "r", "t", " ", "e", "x", "p", "l", "a", "n", "a", "t", "i", "o",
                  "n", " ", "a", "n", "d", " ", "c", "o", "r", "e", " ", "c", "o",
                  "d", "e", " ", "o", "n", "l", "y", ".">>
            ELSE IF params.detail = "normal"
            THEN
                <<"I", "n", "c", "l", "u", "d", "e", " ", "b", "r", "i", "e", "f",
                  " ", "e", "x", "p", "l", "a", "n", "a", "t", "i", "o", "n", ",",
                  " ", "t", "h", "e", " ", "c", "o", "d", "e", ",", " ", "a", "n",
                  "d", " ", "t", "i", "m", "e", "/", "s", "p", "a", "c", "e", " ",
                  "c", "o", "m", "p", "l", "e", "x", "i", "t", "y", ".">>
            ELSE
                <<"P", "r", "o", "v", "i", "d", "e", " ", "a", " ", "c", "o", "n",
                  "c", "i", "s", "e", " ", "o", "v", "e", "r", "v", "i", "e", "w",
                  ",", " ", "w", "e", "l", "l", "-", "c", "o", "m", "m", "e", "n",
                  "t", "e", "d", " ", "c", "o", "d", "e", ",", " ", "c", "o", "m",
                  "p", "l", "e", "x", "i", "t", "y", ",", " ", "a", "n", "d", " ",
                  "2", "-", "3", " ", "e", "d", "g", "e", " ", "c", "a", "s", "e",
                  "s", " ", "t", "o", " ", "c", "o", "n", "s", "i", "d", "e", "r",
                  ".">>
        \* lines
        lines ==
            << <<"Y", "o", "u", " ", "a", "r", "e", " ", "a", " ", "t", "e", "c",
                 "h", "n", "i", "c", "a", "l", " ", "i", "n", "t", "e", "r", "v",
                 "i", "e", "w", " ", "c", "o", "a", "c", "h", ".">>,
               <<"T", "h", "e", " ", "u", "s", "e", "r", " ", "r", "e", "q", "u",
                 "e", "s", "t", "s", " ", "a", "n", " ", "i", "m", "p", "l", "e",
                 "m", "e", "n", "t", "a", "t", "i", "o", "n", " ", "r", "e", "l",
                 "a", "t", "e", "d", " ", "t", "o", ":", " ">>
                  \o params.topic \o <<".">>,
               <<"Y", "o", "u", "r", " ", "t", "a", "s", "k", " ", "i", "s", " ",
                 "t", "o", " ", "p", "r", "o", "d", "u", "c", "e", " ", "c", "l",
                 "e", "a", "r", ",", " ", "w", "e", "l", "l", "-", "c", "o", "m",
                 "m", "e", "n", "t", "e", "d", " ">>
                  \o params.language \o <<" ", "c", "o", "d", "e", ".">>,
               detail_lines,
               <<"R", "e", "s", "p", "o", "n", "d", " ", "i", "n", " ", "M", "a",
                 "r", "k", "d", "o", "w", "n", ".">> >>
            \o (IF code_fence_get(params.language) # <<>>
                THEN << <<"L", "a", "b", "e", "l", " ", "t", "h", "e", " ", "c", "o", "d", "e", " ", "b", "l", "o", "c", "k", " ", "a", "s", " ", Backtick>>
                          \o code_fence_get(params.language) \o <<Backtick, ".">> >>
                ELSE <<>>)
    IN  str_join(<<"\n">>, lines)

\* "Write me code for a binary search tree in C++."
DEFAULT_REQUEST ==
    <<"W", "r", "i", "t", "e", " ", "m", "e", " ", "c", "o", "d", "e",
      " ", "f", "o", "r", " ", "a", " ", "b", "i", "n", "a", "r", "y",
      " ", "s", "e", "a", "r", "c", "h", " ", "t", "r", "e", "e", " ",
      "i", "n", " ", "C", "+", "+", ".">>

\* parse_args(argv): raw_msg and the DynamicParams
dp_parse_args(args) ==
    LET joined   == str_join(<<" ">>, args.message)
        raw_msg  == IF joined = <<>> THEN DEFAULT_REQUEST ELSE joined
        \* the language, from --lang when given and not empty, else detected
        \* in the message, else "Python"
        chosen   == IF ~IsNone(args.lang) /\ Val(args.lang) # <<>>
                    THEN Some(lang_alias_get(str_lower(Val(args.lang)), Val(args.lang)))
                    ELSE detect_language(raw_msg)
        language == IF IsNone(chosen) \/ Val(chosen) = <<>>
                    THEN <<"P", "y", "t", "h", "o", "n">>
                    ELSE Val(chosen)
    IN  [raw_msg |-> raw_msg,
         params |-> [language |-> language,
                     topic |-> guess_topic(raw_msg),
                     detail |-> args.detail]]

----------------------------------------------------------------------------
(* Inputs *)

L_hi    == <<"u", "s", "e", "r", ":", " ", "h", "i">>
L_empty == <<"u", "s", "e", "r", ":">>
L_asst  == <<"A", "s", "s", "i", "s", "t", "a", "n", "t", " ", ":", " ",
             "a", ":", "b", "!", " ">>
L_bogus == <<"b", "o", "g", "u", "s", " ", "l", "i", "n", "e", " ", "w", "i",
             "t", "h", " ", "n", "o", " ", "c", "o", "l", "o", "n">>
L_sys   == <<"s", "y", "s", "t", "e", "m", ":", " ", "h", "i">>

RawLines == {L_hi, L_empty, L_asst, L_bogus, L_sys}

\* the histories of the documented runs (module docstring, lines 10 and 13)
Example1 ==
    << L_hi,
       <<"a", "s", "s", "i", "s", "t", "a", "n", "t", ":", " ",
         "h", "e", "l", "l", "o", "!">>,
       <<"u", "s", "e", "r", ":", " ", "s", "u", "m", "m", "a", "r", "i", "z",
         "e", " ", "B", "F", "S">> >>
Example2 ==
    << <<"u", "s", "e", "r", ":", "a">>,
       <<"a", "s", "s", "i", "s", "t", "a", "n", "t", ":", "b">>,
       <<"u", "s", "e", "r", ":", "c">>,
       <<"a", "s", "s", "i", "s", "t", "a", "n", "t", ":", "d">>,
       <<"u", "s", "e", "r", ":", "e">> >>

BoundedSeq(S, n) == UNION {[1..k -> S] : k \in 0..n}

ParseLines ==
    LET L_asst_blank == <<"a", "s", "s", "i", "s", "t", "a", "n", "t", ":", " ", " ", " ">>
    IN  RawLines \cup {L_asst_blank}
TurnLists == BoundedSeq(RawLines, MaxLen) \cup {Example1, Example2}
NRange == ((0 - 1)..MaxN) \cup {DefaultMaxTurns}
BudgetRange == (0 - 1)..MaxBudget
Hints == {None, Some("gpt2"), Some("no-such-model")}

\* the text of system_prompt.md, and the states of that file
SystemPromptFile ==
    <<" ", "\n", "Y", "o", "u", " ", "a", "r", "e", " ", "a", " ", "m",
      "e", "n", "t", "o", "r", ".", "\n">>
SystemPrompts == {None, Some(SystemPromptFile), Some(<<"S">>)}

\* tok_mod: tokenizer.py was found and loaded (_tok_mod is not None);
\* tiktoken: import tiktoken succeeds; base: cl100k_base can be loaded;
\* encode_fails: the encodings whose encode raises on the text at hand;
\* system_prompt: the text of system_prompt.md, None when the file is missing
Envs ==
    { [tok_mod |-> FALSE, tiktoken |-> FALSE, base |-> FALSE, encode_fails |-> {},
      system_prompt |-> Some(SystemPromptFile)],
      [tok_mod |-> TRUE,  tiktoken |-> FALSE, base |-> FALSE, encode_fails |-> {},
      system_prompt |-> Some(SystemPromptFile)],
      [tok_mod |-> TRUE,  tiktoken |-> TRUE,  base |-> TRUE,  encode_fails |-> {},
      system_prompt |-> Some(SystemPromptFile)],
      [tok_mod |-> TRUE,  tiktoken |-> TRUE,  base |-> FALSE, encode_fails |-> {},
      system_prompt |-> Some(SystemPromptFile)] }

\* the environments of the entry point: system_prompt.md present or missing
MainEnvs == Envs \cup { [e EXCEPT !.system_prompt = None] : e \in Envs }

\* the environments of the tokenizer module called on its own
TokEnvs ==
    { [tok_mod |-> TRUE, tiktoken |-> FALSE, base |-> FALSE, encode_fails |-> {},
      system_prompt |-> Some(SystemPromptFile)] }
    \cup [ tok_mod : {TRUE}, tiktoken : {TRUE}, base : BOOLEAN,
           encode_fails : SUBSET {"gpt2", "cl100k_base"},
           system_prompt : {Some(SystemPromptFile)} ]

HelloWorld == <<"H", "e", "l", "l", "o", ",", " ", "w", "o", "r", "l", "d", "!">>
TextChars == {"a", "_", " ", ",", "\n"}
Texts == BoundedSeq(TextChars, MaxTextLen) \cup {HelloWorld}

\* user messages handed to build_prompt
PaddedRequest == <<" ", "a", "\n", ",", " ">>
UserMessages == Texts \cup {PaddedRequest}

\* current messages
DEFAULT_MESSAGE ==
    <<"W", "h", "a", "t", "'", "s", " ", "t", "h", "e", " ", "k", "e",
      "y", " ", "d", "i", "f", "f", "e", "r", "e", "n", "c", "e", " ",
      "b", "e", "t", "w", "e", "e", "n", " ", "B", "F", "S", " ", "a",
      "n", "d", " ", "D", "F", "S", "?">>
ExplainRecursion ==
    <<"E", "x", "p", "l", "a", "i", "n", " ", "r", "e", "c", "u", "r",
      "s", "i", "o", "n">>
Messages == {DEFAULT_MESSAGE, ExplainRecursion, NONE_PLACEHOLDER}

\* command lines of the entry point
CliMessages ==
    { <<>>,
      << <<"E", "x", "p", "l", "a", "i", "n">>,
         <<"r", "e", "c", "u", "r", "s", "i", "o", "n">> >> }
CliLines == {L_hi, L_empty, L_sys}
Argvs ==
    [ turns        : {None} \cup {Some(ts) : ts \in BoundedSeq(CliLines, MaxLen)},
      max_turns    : {None, Some(0), Some(1), Some(MaxN)},
      token_budget : {None, Some(0 - 1), Some(0), Some(4), Some(MaxBudget)},
      model        : {None, Some("gpt2")},
      message      : CliMessages ]

NoCall == [fn |-> "none"]

----------------------------------------------------------------------------
(* The functions called one at a time, as a library *)

InitLib ==
    /\ env \in Envs
    /\ history = <<>>
    /\ call = NoCall
    /\ pc = "lib"
    /\ argv = None
    /\ turns = <<>>
    /\ max_turns = DefaultMaxTurns
    /\ token_budget = None
    /\ model_hint = None
    /\ window = <<>>
    /\ method = "none"
    /\ msg = <<>>
    /\ instruction = <<>>
    /\ prompt_parts = None
    /\ error = None
    /\ stdout = <<>>

\* one run of the library: parse_turn on a line, or normalize_history on a
\* list of lines followed by one windowing call on the result

CallParseTurn ==
    /\ pc = "lib"
    /\ \E line \in ParseLines :
         call' = [fn |-> "parse_turn", turn_str |-> line, ret |-> parse_turn(line)]
    /\ pc' = "lib_done"
    /\ UNCHANGED <<env, history, argv, turns, max_turns, token_budget,
                   model_hint, window, method,
                   msg, instruction, prompt_parts, error, stdout>>

\* count_tokens of the demo on a text
CallCountTokensDemo ==
    /\ pc = "lib"
    /\ \E text \in Texts, m \in Hints :
         call' = [fn |-> "demo.count_tokens", text |-> text, model_name |-> m,
                  ret |-> count_tokens(env, text, m)]
    /\ pc' = "lib_done"
    /\ UNCHANGED <<env, history, argv, turns, max_turns, token_budget,
                   model_hint, window, method,
                   msg, instruction, prompt_parts, error, stdout>>

CallNormalizeHistory ==
    /\ pc = "lib"
    /\ \E ts \in TurnLists :
         /\ history' = normalize_history(ts)
         /\ call' = [fn |-> "normalize_history", turns |-> ts,
                     ret |-> normalize_history(ts)]
    /\ pc' = "lib_history"
    /\ UNCHANGED <<env, argv, turns, max_turns, token_budget, model_hint,
                   window, method,
                   msg, instruction, prompt_parts, error, stdout>>

CallWindowByMaxTurns ==
    /\ pc = "lib_history"
    /\ \E n \in NRange :
         /\ call' = [fn |-> "window_by_max_turns", history |-> history,
                     max_turns |-> n, nested |-> FALSE,
                     ret |-> window_by_max_turns(history, n)]
         /\ history' = window_by_max_turns_arg(history, n)
    /\ pc' = "lib_window"
    /\ UNCHANGED <<env, argv, turns, max_turns, token_budget,
                   model_hint, window, method,
                   msg, instruction, prompt_parts, error, stdout>>

CallWindowByTokenBudget ==
    /\ pc = "lib_history"
    /\ \E b \in BudgetRange, m \in Hints :
         /\ call' = [fn |-> "window_by_token_budget", history |-> history,
                     budget |-> b, model_name |-> m, nested |-> FALSE,
                     ret |-> window_by_token_budget(env, history, b, m)]
         /\ history' = window_by_token_budget_arg(env, history, b, m)
    /\ pc' = "lib_window"
    /\ UNCHANGED <<env, argv, turns, max_turns, token_budget,
                   model_hint, window, method,
                   msg, instruction, prompt_parts, error, stdout>>

CallBuildInstruction ==
    /\ pc = "lib_history"
    /\ \E current_message \in Messages :
         /\ call' = [fn |-> "build_instruction", history |-> history,
                     current_message |-> current_message,
                     lines |-> build_instruction_lines(history, current_message),
                     ret |-> build_instruction(history, current_message)]
         /\ history' = build_instruction_arg(history, current_message)
    /\ pc' = "lib_done"
    /\ UNCHANGED <<env, argv, turns, max_turns, token_budget,
                   model_hint, window, method,
                   msg, instruction, prompt_parts, error, stdout>>

\* the same function applied, with the same constraint, to its own result
CallWindowAgain ==
    /\ pc = "lib_window"
    /\ call' = [call EXCEPT
                  !.history = call.ret,
                  !.nested = TRUE,
                  !.ret = IF call.fn = "window_by_max_turns"
                          THEN window_by_max_turns(call.ret, call.max_turns)
                          ELSE window_by_token_budget(env, call.ret, call.budget,
                                                      call.model_name)]
    /\ pc' = "lib_done"
    /\ UNCHANGED <<env, history, argv, turns, max_turns, token_budget,
                   model_hint, window, method,
                   msg, instruction, prompt_parts, error, stdout>>

NextLib ==
    \/ CallParseTurn
    \/ CallCountTokensDemo
    \/ CallNormalizeHistory
    \/ CallWindowByMaxTurns
    \/ CallWindowByTokenBudget
    \/ CallBuildInstruction
    \/ CallWindowAgain

SpecLib == InitLib /\ [][NextLib]_vars

----------------------------------------------------------------------------
(* The __main__ block of conversation_memory_demo.py *)

Init ==
    /\ env \in MainEnvs
    /\ argv \in Argvs
    /\ pc = "start"
    /\ history = <<>>
    /\ call = NoCall
    /\ turns = <<>>
    /\ max_turns = DefaultMaxTurns
    /\ token_budget = None
    /\ model_hint = None
    /\ window = <<>>
    /\ method = "none"
    /\ msg = <<>>
    /\ instruction = <<>>
    /\ prompt_parts = None
    /\ error = None
    /\ stdout = <<>>

\* parse_args: the defaults of argparse and "args.turns or []"
ParseArgs ==
    /\ pc = "start"
    /\ turns' = IF IsNone(argv.turns) THEN <<>> ELSE Val(argv.turns)
    /\ max_turns' = IF IsNone(argv.max_turns) THEN DefaultMaxTurns
                    ELSE Val(argv.max_turns)
    /\ token_budget' = argv.token_budget
    /\ model_hint' = argv.model
    /\ msg' = LET joined == str_join(<<" ">>, argv.message)
              IN  IF joined = <<>> THEN DEFAULT_MESSAGE ELSE joined
    /\ pc' = "parsed"
    /\ UNCHANGED <<env, history, call, argv, window, method,
                   instruction, prompt_parts, error, stdout>>

\* history = normalize_history(turns)
NormalizeStep ==
    /\ pc = "parsed"
    /\ history' = normalize_history(turns)
    /\ pc' = "normalized"
    /\ UNCHANGED <<env, call, argv, turns, max_turns, token_budget, model_hint,
                   window, method,
                   msg, instruction, prompt_parts, error, stdout>>

\* the branch taken whenever a budget is given ("token_budget is not None")
use_token_budget_given(tb) == ~IsNone(tb)

\* "token_budget and token_budget > 0": None and 0 are falsy
use_token_budget(tb) == (~IsNone(tb) /\ Val(tb) # 0) /\ Val(tb) > 0

WindowTokenBudget ==
    /\ pc = "normalized"
    /\ use_token_budget(token_budget)
    /\ window' = window_by_token_budget(env, history, Val(token_budget), model_hint)
    /\ history' = window_by_token_budget_arg(env, history, Val(token_budget),
                                             model_hint)
    /\ method' = "token_budget"
    /\ pc' = "windowed"
    /\ UNCHANGED <<env, call, argv, turns, max_turns, token_budget,
                   model_hint, msg, instruction, prompt_parts, error, stdout>>

WindowMaxTurns ==
    /\ pc = "normalized"
    /\ ~use_token_budget(token_budget)
    /\ window' = window_by_max_turns(history, max_turns)
    /\ history' = window_by_max_turns_arg(history, max_turns)
    /\ method' = "max_turns"
    /\ pc' = "windowed"
    /\ UNCHANGED <<env, call, argv, turns, max_turns, token_budget,
                   model_hint, msg, instruction, prompt_parts, error, stdout>>

\* instruction = build_instruction(window, msg)
BuildInstruction ==
    /\ pc = "windowed"
    /\ instruction' = build_instruction(window, msg)
    /\ window' = build_instruction_arg(window, msg)
    /\ pc' = "composed"
    /\ UNCHANGED <<env, history, call, argv, turns, max_turns, token_budget,
                   model_hint, method, msg, prompt_parts, error,
                   stdout>>

\* parts = rb.build_prompt(instruction); an exception is not caught and ends
\* the run
BuildPrompt ==
    /\ pc = "composed"
    /\ LET r == build_prompt(env, instruction)
       IN  IF r.raised
           THEN error' = r.error /\ pc' = "failed" /\ UNCHANGED prompt_parts
           ELSE prompt_parts' = r.parts /\ pc' = "built" /\ UNCHANGED error
    /\ UNCHANGED <<env, history, call, argv, turns, max_turns, token_budget,
                   model_hint, window, method, msg, instruction, stdout>>

\* hist_text taken from the history section with its heading
hist_text_headed(w) ==
    HISTORY_HEADING \o <<"\n">>
    \o str_join(<<"\n">>, [i \in 1..Len(w) |-> instruction_line(w[i])])
    \o (IF w # <<>> THEN <<"\n">> ELSE <<>>)

\* hist_text: the rendered window, newline-terminated when not empty
hist_text(w) ==
    str_join(<<"\n">>, [i \in 1..Len(w) |-> instruction_line(w[i])])
    \o (IF w # <<>> THEN <<"\n">> ELSE <<>>)

\* the print calls, in order: one entry per call, holding its arguments
report(e, w, meth, mt, tb, m, p, instr) ==
    << <<"===== CONVERSATION MEMORY DEMO =====\n">>,
       <<"Window method:",
         [name |-> meth, value |-> IF meth = "token_budget" THEN Val(tb) ELSE mt]>>,
       <<"Included turns:", Len(w)>>,
       <<"\n----- SYSTEM -----\n">>,
       <<p.system>>,
       <<"\n----- USER (instruction with history) -----\n">>,
       <<instr>> >>
    \o (IF use_token_budget(tb)
        THEN << <<"\nHistory tokens:", count_tokens(e, hist_text(w), m)>>,
                <<"Model hint:", IF IsNone(m) THEN "(none)" ELSE Val(m)>> >>
        ELSE <<>>)

PrintReport ==
    /\ pc = "built"
    /\ stdout' = report(env, window, method, max_turns, token_budget, model_hint,
                        Val(prompt_parts), instruction)
    /\ pc' = "done"
    /\ UNCHANGED <<env, history, call, argv, turns, max_turns, token_budget,
                   model_hint, window, method, msg, instruction, prompt_parts, error>>

Next ==
    \/ ParseArgs
    \/ NormalizeStep
    \/ WindowTokenBudget
    \/ WindowMaxTurns
    \/ BuildInstruction
    \/ BuildPrompt
    \/ PrintReport

Spec == Init /\ [][Next]_vars

----------------------------------------------------------------------------
(* utils/tokenizer.py called on its own: one call on one text *)

InitTok ==
    /\ env \in TokEnvs
    /\ history = <<>>
    /\ call = NoCall
    /\ pc = "tok"
    /\ argv = None
    /\ turns = <<>>
    /\ max_turns = DefaultMaxTurns
    /\ token_budget = None
    /\ model_hint = None
    /\ window = <<>>
    /\ method = "none"
    /\ msg = <<>>
    /\ instruction = <<>>
    /\ prompt_parts = None
    /\ error = None
    /\ stdout = <<>>

CallHeuristicCount ==
    /\ pc = "tok"
    /\ \E text \in Texts :
         call' = [fn |-> "_heuristic_count", text |-> text,
                  ret |-> heuristic_count(text)]
    /\ pc' = "tok_done"
    /\ UNCHANGED <<env, history, argv, turns, max_turns, token_budget,
                   model_hint, window, method,
                   msg, instruction, prompt_parts, error, stdout>>

CallCountTokens ==
    /\ pc = "tok"
    /\ \E text \in Texts, m \in Hints :
         call' = [fn |-> "count_tokens", text |-> text, model_name |-> m,
                  ret |-> tokenizer_count_tokens_result(env, text, m)]
    /\ pc' = "tok_done"
    /\ UNCHANGED <<env, history, argv, turns, max_turns, token_budget,
                   model_hint, window, method,
                   msg, instruction, prompt_parts, error, stdout>>

NextTok ==
    \/ CallHeuristicCount
    \/ CallCountTokens

SpecTok == InitTok /\ [][NextTok]_vars

----------------------------------------------------------------------------
(* prompts/runtime_builder.py called on its own: one call *)

BuildEnvs ==
    { [tok_mod |-> TRUE, tiktoken |-> FALSE, base |-> FALSE, encode_fails |-> {},
       system_prompt |-> sp] : sp \in SystemPrompts }

InitBuild ==
    /\ env \in BuildEnvs
    /\ history = <<>>
    /\ call = NoCall
    /\ pc = "rb"
    /\ argv = None
    /\ turns = <<>>
    /\ max_turns = DefaultMaxTurns
    /\ token_budget = None
    /\ model_hint = None
    /\ window = <<>>
    /\ method = "none"
    /\ msg = <<>>
    /\ instruction = <<>>
    /\ prompt_parts = None
    /\ error = None
    /\ stdout = <<>>

CallLoadSystemPrompt ==
    /\ pc = "rb"
    /\ call' = [fn |-> "load_system_prompt", ret |-> load_system_prompt(env)]
    /\ pc' = "rb_done"
    /\ UNCHANGED <<env, history, argv, turns, max_turns, token_budget,
                   model_hint, window, method,
                   msg, instruction, prompt_parts, error, stdout>>

CallBuildPrompt ==
    /\ pc = "rb"
    /\ \E user_message \in UserMessages :
         call' = [fn |-> "build_prompt", user_message |-> user_message,
                  ret |-> build_prompt(env, user_message)]
    /\ pc' = "rb_done"
    /\ UNCHANGED <<env, history, argv, turns, max_turns, token_budget,
                   model_hint, window, method,
                   msg, instruction, prompt_parts, error, stdout>>

NextBuild ==
    \/ CallLoadSystemPrompt
    \/ CallBuildPrompt

SpecBuild == InitBuild /\ [][NextBuild]_vars

----------------------------------------------------------------------------
(* The __main__ blocks of structured_output_demo.py and                    *)
(* tool_calling_demo.py                                                    *)

\* JSON values given on the command line
JAbsent == <<"absent", "absent">>
GoodArray  == JList(<< JStr(<<"a">>) >>)
EmptyArray == JList(<<>>)

\* the dict of the fields of r that are present
DictOf(r) == JDict([k \in {k \in DOMAIN r : r[k][1] # "absent"} |-> r[k]])

FeedbackPayloads ==
    LET IntArray   == JList(<< JInt(1) >>)
    IN  { DictOf(r) : r \in
            [ strengths       : {JAbsent, GoodArray, EmptyArray, IntArray, JStr(<<"a">>)},
              weaknesses      : {JAbsent, GoodArray},
              recommendations : {GoodArray},
              score           : {JAbsent, JInt(7), JInt(11), JInt(0 - 1), JBool(TRUE),
                                 JFloat("7.5"), JStr(<<"7">>)},
              note            : {JAbsent, JStr(<<"x">>)} ] }
        \cup {JNull, EmptyArray, JInt(7)}

ToolCallPayloads ==
    LET ArgumentValues ==
            { DictOf(r) : r \in
                [ location : {JAbsent, JStr(<<"P">>), JStr(<<>>), JInt(1)},
                  unit     : {JAbsent, JStr(<<"C">>), JStr(<<"K">>)},
                  note     : {JAbsent, JStr(<<"x">>)} ] }
            \cup
            { DictOf(r) : r \in
                [ query : {JAbsent, JStr(<<"a", "b", "c">>), JStr(<<"a", "b">>)},
                  top_k : {JAbsent, JInt(5), JInt(21), JStr(<<"5">>)} ] }
            \cup {JAbsent, JStr(<<"x">>)}
    IN  { DictOf(r) : r \in
            [ tool      : {JAbsent, JStr(GET_WEATHER), JStr(SEARCH_DOCS), JStr(<<"x">>),
                           EmptyArray, JInt(5)},
              arguments : ArgumentValues ] }
        \cup {JNull, EmptyArray}

\* texts: the empty string, a text that is not JSON, the text of a value
EmptyText == [kind |-> "empty", value |-> JNull]
MalformedText == [kind |-> "malformed", value |-> JNull]
JsonText(x) == [kind |-> "json", value |-> x]

FileOf(text) == [path |-> "sample_output.json", exists |-> TRUE, text |-> text]

InitSchema ==
    LET SchemaArgvs ==
            LET JsonFiles ==
                    LET \* --json-file: a path with no file, or a file and its text
                        MissingFile == [path |-> "missing.json", exists |-> FALSE, text |-> EmptyText]
                    IN  {None, Some(MissingFile), Some(FileOf(MalformedText)),
                         Some(FileOf(JsonText(DictOf([score |-> JInt(7)]))))}
            IN  [ demo : {"structured_output"}, message : CliMessages,
                  json_str : {None, Some(EmptyText), Some(MalformedText)}
                             \cup {Some(JsonText(x)) : x \in FeedbackPayloads},
                  json_file : JsonFiles ]
                \cup
                [ demo : {"tool_calling"}, message : CliMessages,
                  json_str : {None, Some(EmptyText), Some(MalformedText)}
                             \cup {Some(JsonText(x)) : x \in ToolCallPayloads},
                  json_file : {None} ]
        \* jsonschema installed or not; system_prompt.md present or missing
        SchemaEnvs == [ jsonschema : BOOLEAN, system_prompt : {None, Some(SystemPromptFile)} ]
    IN  /\ env \in SchemaEnvs
        /\ argv \in SchemaArgvs
        /\ pc = "sd_start"
        /\ history = <<>>
        /\ call = NoCall
        /\ turns = <<>>
        /\ max_turns = DefaultMaxTurns
        /\ token_budget = None
        /\ model_hint = None
        /\ window = <<>>
        /\ method = "none"
        /\ msg = <<>>
        /\ instruction = <<>>
        /\ prompt_parts = None
        /\ error = None
        /\ stdout = <<>>

\* parse_args, the default of the topic or goal, and the instruction
SchemaCompose ==
    /\ pc = "sd_start"
    /\ LET joined == str_join(<<" ">>, argv.message)
           topic  == IF joined # <<>> THEN joined
                     ELSE IF argv.demo = "structured_output" THEN DEFAULT_TOPIC
                     ELSE DEFAULT_GOAL
       IN  /\ msg' = topic
           /\ instruction' = IF argv.demo = "structured_output"
                             THEN build_user_instruction(topic)
                             ELSE tc_build_instruction(topic)
    /\ pc' = "sd_composed"
    /\ UNCHANGED <<env, history, call, argv, turns, max_turns, token_budget,
                   model_hint, window, method, prompt_parts, error, stdout>>

\* parts = rb.build_prompt(instruction)
SchemaBuildPrompt ==
    /\ pc = "sd_composed"
    /\ LET r == build_prompt(env, instruction)
       IN  IF r.raised
           THEN error' = r.error /\ pc' = "sd_failed" /\ UNCHANGED prompt_parts
           ELSE prompt_parts' = r.parts /\ pc' = "sd_built" /\ UNCHANGED error
    /\ UNCHANGED <<env, history, call, argv, turns, max_turns, token_budget,
                   model_hint, window, method, msg, instruction, stdout>>

\* the five print calls that show the prompt
SchemaPrintPrompt ==
    /\ pc = "sd_built"
    /\ stdout' = << <<IF argv.demo = "structured_output"
                      THEN "===== STRUCTURED OUTPUT DEMO =====\n"
                      ELSE "===== TOOL CALLING DEMO =====\n">>,
                    <<"----- SYSTEM -----\n">>,
                    <<Val(prompt_parts).system>>,
                    <<"\n----- USER (instruction) -----\n">>,
                    <<instruction>> >>
    /\ pc' = "sd_printed"
    /\ UNCHANGED <<env, history, call, argv, turns, max_turns, token_budget,
                   model_hint, window, method, msg, instruction, prompt_parts,
                   error>>

\* candidate = try_load_json(...); an exception is not caught and ends the run
SchemaLoadJson ==
    /\ pc = "sd_printed"
    /\ LET r == IF argv.demo = "structured_output"
                THEN so_try_load_json(argv.json_str, argv.json_file)
                ELSE tc_try_load_json(argv.json_str)
       IN  /\ call' = [fn |-> "try_load_json", ret |-> r]
           /\ IF r.raised
              THEN error' = r.error /\ pc' = "sd_failed"
              ELSE UNCHANGED error /\ pc' = "sd_loaded"
    /\ UNCHANGED <<env, history, argv, turns, max_turns, token_budget,
                   model_hint, window, method, msg, instruction, prompt_parts,
                   stdout>>

\* "if candidate is not None": validate, print the result and, when it is
\* not ok, the payload (None is also what the JSON text null loads as)
SchemaValidate ==
    /\ pc = "sd_loaded"
    /\ LET loaded    == call.ret.value
           candidate == Val(loaded)
       IN  IF IsNone(loaded) \/ candidate[1] = "null"
           THEN /\ call' = [fn |-> "none", candidate |-> loaded]
                /\ pc' = "sd_done"
                /\ UNCHANGED <<stdout, error>>
           ELSE LET r == IF argv.demo = "structured_output"
                         THEN [raised |-> FALSE] @@ validate_payload(env, candidate)
                         ELSE validate_tool_call(env, candidate)
                IN  /\ call' = [fn |-> "validate", payload |-> candidate, ret |-> r]
                    /\ IF r.raised
                       THEN /\ error' = Some([type |-> r.info])
                            /\ pc' = "sd_failed"
                            /\ UNCHANGED stdout
                       ELSE /\ stdout' = stdout
                                 \o << <<"\n----- VALIDATION RESULT -----\n">>,
                                       <<r.info>> >>
                                 \o (IF ~r.ok
                                     THEN << <<"\nProvided JSON:">>,
                                             <<[dumps |-> candidate]>> >>
                                     ELSE <<>>)
                            /\ pc' = "sd_done"
                            /\ UNCHANGED error
    /\ UNCHANGED <<env, history, argv, turns, max_turns, token_budget,
                   model_hint, window, method, msg, instruction, prompt_parts>>

NextSchema ==
    \/ SchemaCompose
    \/ SchemaBuildPrompt
    \/ SchemaPrintPrompt
    \/ SchemaLoadJson
    \/ SchemaValidate

SpecSchema == InitSchema /\ [][NextSchema]_vars

----------------------------------------------------------------------------
(* The __main__ block of dynamic_prompt.py *)

DocumentedRequest ==
    <<"W", "r", "i", "t", "e", " ", "m", "e", " ", "c", "o", "d", "e",
      " ", "f", "o", "r", " ", "a", " ", "b", "i", "n", "a", "r", "y",
      " ", "s", "e", "a", "r", "c", "h", " ", "t", "r", "e", "e", " ",
      "i", "n", " ", "C", "+", "+">>

InitDyn ==
    LET DynMessages ==
            LET Request_csharp ==
                    <<"s", "o", "r", "t", " ", "a", " ", "l", "i", "s", "t", " ", "i",
                      "n", " ", "c", "#">>
                Request_cpp ==
                    <<"u", "s", "e", " ", "c", "p", "p", " ", "h", "e", "r", "e">>
                Request_cpp11 ==
                    <<"c", "+", "+", "1", "1", " ", "c", "o", "d", "e">>
                Request_go ==
                    <<"q", "u", "e", "u", "e", " ", "i", "n", " ", "G", "o", ".">>
                Request_two ==
                    <<"f", "o", "r", "m", "a", "t", " ", "i", "n", " ", "j", "a", "v",
                      "a", " ", "o", "r", " ", "p", "y", "t", "h", "o", "n">>
                Request_none ==
                    <<"I", "m", "p", "l", "e", "m", "e", "n", "t", " ", "D", "i", "j",
                      "k", "s", "t", "r", "a", "'", "s", " ", "a", "l", "g", "o", "r",
                      "i", "t", "h", "m">>
                Request_plain ==
                    <<"n", "o", " ", "l", "a", "n", "g", "u", "a", "g", "e">>
            IN  { <<>> } \cup { <<m>> : m \in {DocumentedRequest, Request_csharp, Request_cpp, Request_cpp11,
                                             Request_go, Request_two, Request_none, Request_plain} }
        DynArgvs ==
            [ message : DynMessages,
              lang    : {None, Some(<<>>), Some(<<"C", "P", "P">>), Some(<<"Z", "i", "g">>)},
              detail  : {"basic", "normal", "deep"} ]
        DynEnvs == [ system_prompt : {None, Some(SystemPromptFile)} ]
    IN  /\ env \in DynEnvs
        /\ argv \in DynArgvs
        /\ pc = "dp_start"
        /\ history = <<>>
        /\ call = NoCall
        /\ turns = <<>>
        /\ max_turns = DefaultMaxTurns
        /\ token_budget = None
        /\ model_hint = None
        /\ window = <<>>
        /\ method = "none"
        /\ msg = <<>>
        /\ instruction = <<>>
        /\ prompt_parts = None
        /\ error = None
        /\ stdout = <<>>

\* user_input, dyn = parse_args(sys.argv[1:])
DynParseArgs ==
    /\ pc = "dp_start"
    /\ msg' = dp_parse_args(argv).raw_msg
    /\ call' = [fn |-> "parse_args", dyn |-> dp_parse_args(argv).params]
    /\ pc' = "dp_parsed"
    /\ UNCHANGED <<env, history, argv, turns, max_turns, token_budget,
                   model_hint, window, method, instruction, prompt_parts, error,
                   stdout>>

\* dynamic_user = build_dynamic_user_message(dyn)
DynBuildMessage ==
    /\ pc = "dp_parsed"
    /\ instruction' = build_dynamic_user_message(call.dyn)
    /\ pc' = "dp_composed"
    /\ UNCHANGED <<env, history, call, argv, turns, max_turns, token_budget,
                   model_hint, window, method, msg, prompt_parts, error, stdout>>

\* parts = rb.build_prompt(dynamic_user)
DynBuildPrompt ==
    /\ pc = "dp_composed"
    /\ LET r == build_prompt(env, instruction)
       IN  IF r.raised
           THEN error' = r.error /\ pc' = "dp_failed" /\ UNCHANGED prompt_parts
           ELSE prompt_parts' = r.parts /\ pc' = "dp_built" /\ UNCHANGED error
    /\ UNCHANGED <<env, history, call, argv, turns, max_turns, token_budget,
                   model_hint, window, method, msg, instruction, stdout>>

DynPrint ==
    /\ pc = "dp_built"
    /\ stdout' = << <<"===== DYNAMIC PROMPT =====\n">>,
                    <<"----- SYSTEM -----\n">>,
                    <<Val(prompt_parts).system>>,
                    <<"\n----- USER (dynamic) -----\n">>,
                    <<instruction>>,
                    <<"\n----- ORIGINAL INPUT -----\n">>,
                    <<msg>> >>
    /\ pc' = "dp_done"
    /\ UNCHANGED <<env, history, call, argv, turns, max_turns, token_budget,
                   model_hint, window, method, msg, instruction, prompt_parts,
                   error>>

NextDyn ==
    \/ DynParseArgs
    \/ DynBuildMessage
    \/ DynBuildPrompt
    \/ DynPrint

SpecDyn == InitDyn /\ [][NextDyn]_vars

----------------------------------------------------------------------------
(* Properties *)

Min(a, b) == IF a < b THEN a ELSE b

\* w is the contiguous suffix of h of its length, in h's order
IsSuffixOf(w, h) ==
    /\ Len(w) <= Len(h)
    /\ w = SubSeq(h, Len(h) - Len(w) + 1, Len(h))

\* a turn's cost: the estimator's count of its rendered line
TurnCost(e, item, m) == count_tokens(e, render_line(item), m)

\* summed cost of the turns h[k..Len(h)]
RECURSIVE CostFrom(_, _, _, _)
CostFrom(e, h, m, k) ==
    IF k > Len(h) THEN 0 ELSE TurnCost(e, h[k], m) + CostFrom(e, h, m, k + 1)

IsBudgetCall == call.fn = "window_by_token_budget"
IsMaxTurnsCall == call.fn = "window_by_max_turns"

\* C1 as stated: for every budget b, the summed cost of the turns returned by
\* window_by_token_budget(H, b, hint) is at most b.
C1_BudgetRespectedAnyBudget ==
    IsBudgetCall => CostFrom(env, call.ret, call.model_name, 1) <= call.budget

\* C1 amended: for every budget b >= 0, the summed cost of the turns returned
\* by window_by_token_budget(H, b, hint) is at most b.
C1_BudgetRespected ==
    (IsBudgetCall /\ call.budget >= 0)
        => CostFrom(env, call.ret, call.model_name, 1) <= call.budget

C1_Witness ==
    /\ IsBudgetCall /\ ~call.nested
    /\ call.budget >= 0
    /\ Len(call.ret) >= 2
    /\ Len(call.ret) < Len(call.history)

\* positions of h whose suffix h[k..] costs more than the budget; the largest
\* is the first overflowing turn met walking from the most recent turn back
OverflowAt(e, h, b, m) == {k \in 1..Len(h) : CostFrom(e, h, m, k) > b}
MaxOf(S) == CHOOSE k \in S : \A j \in S : j <= k

\* C2: window_by_token_budget stops at the first turn (from the most recent)
\* that would overflow: the result is exactly the turns after it, and no older
\* turn is in the result even if it alone would fit (no skip-and-continue).
C2_StopsAtFirstOverflow ==
    IsBudgetCall =>
        LET over == OverflowAt(env, call.history, call.budget, call.model_name)
        IN  over # {} =>
              call.ret = SubSeq(call.history, MaxOf(over) + 1, Len(call.history))

\* an older turn would still fit beside the retained ones and is left out
C2_Witness ==
    /\ IsBudgetCall /\ ~call.nested
    /\ LET over == OverflowAt(env, call.history, call.budget, call.model_name)
           j    == MaxOf(over)
       IN  /\ over # {}
           /\ j > 1
           /\ Len(call.ret) >= 1
           /\ TurnCost(env, call.history[j - 1], call.model_name)
                + CostFrom(env, call.history, call.model_name, j + 1) <= call.budget
           /\ Len(call.ret) = Len(call.history) - j

\* C3: for both strategies the result is a contiguous suffix of the input
\* history, in the original (oldest first) order.
C3_SuffixInOrder ==
    (IsBudgetCall \/ IsMaxTurnsCall) => IsSuffixOf(call.ret, call.history)

C3_Witness ==
    /\ IsBudgetCall /\ ~call.nested
    /\ Len(call.ret) >= 2
    /\ Len(call.ret) < Len(call.history)
    /\ call.ret[1] # call.ret[Len(call.ret)]

\* C4: window_by_max_turns(H, n) is empty when n <= 0 and otherwise the last
\* min(n, len(H)) turns of H in order; the 3-turn example with n = 6 is returned
\* whole, the 5-turn example with n = 4 loses only its first turn.
C4_MaxTurnsLastN ==
    IsMaxTurnsCall =>
        LET h == call.history
            n == call.max_turns
        IN  /\ n <= 0 => call.ret = <<>>
            /\ n > 0 => call.ret = SubSeq(h, Len(h) - Min(n, Len(h)) + 1, Len(h))
            /\ (h = normalize_history(Example1) /\ n = 6)
                  => (Len(h) = 3 /\ call.ret = h)
            /\ (h = normalize_history(Example2) /\ n = 4)
                  => (Len(h) = 5 /\ call.ret = Tail(h))

C4_Witness ==
    /\ IsMaxTurnsCall /\ ~call.nested
    /\ call.history = normalize_history(Example2)
    /\ call.max_turns = 4
    /\ Len(call.ret) = 4
    /\ call.ret[1] = [role |-> ASSISTANT, content |-> <<"b">>]

\* C5: windowing a window again with the same constraint changes nothing,
\* for window_by_max_turns and for window_by_token_budget.
C5_Idempotent ==
    ((IsBudgetCall \/ IsMaxTurnsCall) /\ call.nested) => call.ret = call.history

C5_Witness ==
    /\ IsBudgetCall /\ call.nested
    /\ Len(call.ret) >= 2
    /\ Len(call.ret) < Len(history)
    /\ call.ret[1] # call.ret[Len(call.ret)]

\* C6: window_by_max_turns is monotone in n: for n1 <= n2 the window for n1
\* is no longer than, and a suffix of, the window for n2.
C6_MaxTurnsMonotone ==
    (IsMaxTurnsCall /\ ~call.nested) =>
        \A n2 \in NRange :
            call.max_turns <= n2 =>
                LET w2 == window_by_max_turns(call.history, n2)
                IN  /\ Len(call.ret) <= Len(w2)
                    /\ IsSuffixOf(call.ret, w2)

C6_Witness ==
    /\ IsMaxTurnsCall /\ ~call.nested
    /\ call.max_turns = 1
    /\ Len(call.ret) = 1
    /\ Len(window_by_max_turns(call.history, 2)) = 2
    /\ Len(call.history) = 3

\* C7: the entry point runs exactly one windowing method: the token-budget
\* window iff a token budget is given and positive (max-turns is then
\* ignored), otherwise the max-turns window, max-turns defaulting to 6.
C7_ExactlyOneMethod ==
    pc = "windowed" =>
        LET given == ~IsNone(argv.token_budget)
            n     == IF IsNone(argv.max_turns) THEN 6 ELSE Val(argv.max_turns)
        IN  /\ method \in {"token_budget", "max_turns"}
            /\ method = "token_budget" <=> (given /\ Val(argv.token_budget) > 0)
            /\ method = "token_budget" =>
                  window = window_by_token_budget(env, history,
                               Val(argv.token_budget), argv.model)
            /\ method = "max_turns" => window = window_by_max_turns(history, n)

\* both options given: the budget decides and max-turns is ignored
C7_Witness ==
    /\ pc = "windowed"
    /\ argv.max_turns = Some(1)
    /\ ~IsNone(argv.token_budget)
    /\ method = "token_budget"
    /\ Len(window) > 1

\* what the claim says of one raw line: the first colon splits it
ColonsOf(s) == {i \in 1..Len(s) : s[i] = ":"}
FirstColon(s) == CHOOSE i \in ColonsOf(s) : \A j \in ColonsOf(s) : i <= j
\* s without its leading and trailing whitespace
Trimmed(s) ==
    LET vis == {i \in 1..Len(s) : ~IsSpace(s[i])}
    IN  IF vis = {} THEN <<>>
        ELSE SubSeq(s, CHOOSE i \in vis : \A j \in vis : i <= j,
                       CHOOSE i \in vis : \A j \in vis : j <= i)
Lowered(s) == [i \in 1..Len(s) |-> char_lower(s[i])]
RoleOf(s) == Lowered(Trimmed(SubSeq(s, 1, FirstColon(s) - 1)))
ContentOf(s) == Trimmed(SubSeq(s, FirstColon(s) + 1, Len(s)))
Accepted(s) == ColonsOf(s) # {} /\ RoleOf(s) \in {USER, ASSISTANT}

\* C8: a raw line with no colon yields no turn; otherwise the role is the
\* text before the first colon, trimmed and lowercased, and the content is all
\* the text after the first colon (later colons included), trimmed.
C8_SplitOnFirstColon ==
    call.fn = "parse_turn" =>
        LET s == call.turn_str
        IN  /\ ColonsOf(s) = {} => call.ret = None
            /\ ColonsOf(s) # {} =>
                  \/ call.ret = None /\ RoleOf(s) \notin {USER, ASSISTANT}
                  \/ call.ret = Some([role |-> RoleOf(s), content |-> ContentOf(s)])

C8_Witness ==
    /\ call.fn = "parse_turn"
    /\ call.turn_str = L_asst
    /\ call.ret = Some([role |-> ASSISTANT, content |-> <<"a", ":", "b", "!">>])

RECURSIVE AcceptedTurns(_)
AcceptedTurns(ts) ==
    IF ts = <<>> THEN <<>>
    ELSE (IF Accepted(Head(ts))
          THEN <<[role |-> RoleOf(Head(ts)), content |-> ContentOf(Head(ts))]>>
          ELSE <<>>) \o AcceptedTurns(Tail(ts))

\* C9: normalize_history drops every line without a colon or with a role
\* outside {user, assistant} and goes on; every output turn has such a role;
\* the output is the accepted lines in input order; the list
\* ["bogus line with no colon", "system: hi"] yields the empty history.
C9_DropMalformedKeepOrder ==
    call.fn = "normalize_history" =>
        /\ call.ret = AcceptedTurns(call.turns)
        /\ \A i \in 1..Len(call.ret) : call.ret[i].role \in {USER, ASSISTANT}
        /\ call.turns = <<L_bogus, L_sys>> => call.ret = <<>>

C9_Witness ==
    /\ call.fn = "normalize_history"
    /\ call.turns = <<L_asst, L_bogus, L_hi>>
    /\ call.ret = << [role |-> ASSISTANT, content |-> <<"a", ":", "b", "!">>],
                     [role |-> USER, content |-> <<"h", "i">>] >>

\* C10: window_by_token_budget(H, 0, None) is empty for every non-empty H,
\* every rendered turn line costing at least one token.
C10_ZeroBudgetEmpty ==
    (IsBudgetCall /\ call.budget = 0 /\ call.model_name = None
       /\ call.history # <<>>)
        => /\ call.ret = <<>>
           /\ \A i \in 1..Len(call.history) :
                 TurnCost(env, call.history[i], None) >= 1

C10_Witness ==
    /\ IsBudgetCall /\ ~call.nested
    /\ call.budget = 0
    /\ call.model_name = None
    /\ Len(call.history) = 3
    /\ call.ret = <<>>


\* C11: a turn whose own rendered-line cost exceeds the budget is never in the
\* result of window_by_token_budget, whole or truncated: every returned turn
\* is an input turn with its role and full content, and the window is empty
\* when the most recent turn alone exceeds the budget.
C11_OversizedTurnExcluded ==
    IsBudgetCall =>
        LET h == call.history
        IN  /\ \A i \in 1..Len(call.ret) :
                 /\ TurnCost(env, call.ret[i], call.model_name) <= call.budget
                 /\ call.ret[i] = h[Len(h) - Len(call.ret) + i]
            /\ (h # <<>> /\ TurnCost(env, h[Len(h)], call.model_name) > call.budget)
                  => call.ret = <<>>

\* the most recent turn is too big, an older one would fit: nothing is returned
C11_Witness ==
    /\ IsBudgetCall /\ ~call.nested
    /\ Len(call.history) >= 2
    /\ call.budget >= 1
    /\ TurnCost(env, call.history[Len(call.history)], call.model_name) > call.budget
    /\ TurnCost(env, call.history[1], call.model_name) <= call.budget
    /\ call.ret = <<>>


\* the count the heuristic is said to give: positions that start a maximal
\* run of word characters, plus positions of a non-word non-space character
WordRunStarts(t) ==
    {i \in 1..Len(t) : IsWord(t[i]) /\ (i = 1 \/ ~IsWord(t[i - 1]))}
PunctuationAt(t) == {i \in 1..Len(t) : ~IsWord(t[i]) /\ ~IsSpace(t[i])}
HeuristicTokens(t) == Cardinality(WordRunStarts(t)) + Cardinality(PunctuationAt(t))

\* C12: the heuristic estimator returns the number of maximal runs of word
\* characters plus the number of single non-word non-space characters;
\* whitespace contributes nothing, the empty string gives 0 and
\* "Hello, world!" gives 4.
C12_HeuristicCount ==
    call.fn = "_heuristic_count" =>
        /\ call.ret = HeuristicTokens(call.text)
        /\ call.text = <<>> => call.ret = 0
        /\ (\A i \in 1..Len(call.text) : IsSpace(call.text[i])) => call.ret = 0
        /\ call.text = HelloWorld => call.ret = 4

C12_Witness ==
    /\ call.fn = "_heuristic_count"
    /\ call.text = HelloWorld
    /\ call.ret = 4


\* the failures of the primary (tiktoken) strategy of count_tokens
Recognized(m) == ~IsNone(m) /\ ~IsNone(tiktoken_encoding_for_model(Val(m)))
UnknownModel(m) == ~IsNone(m) /\ IsNone(tiktoken_encoding_for_model(Val(m)))
ChosenEncoding(m) ==
    IF Recognized(m) THEN Val(tiktoken_encoding_for_model(Val(m))) ELSE "cl100k_base"
LibraryMissing(e) == ~e.tiktoken
LookupRaises(e, m) == e.tiktoken /\ ~Recognized(m) /\ ~e.base
EncodeRaises(e, m) ==
    /\ e.tiktoken
    /\ Recognized(m) \/ e.base
    /\ ChosenEncoding(m) \in e.encode_fails

IsCountTokensCall == call.fn = "count_tokens"

\* C13 as stated: count_tokens lets no error of the primary strategy out, and
\* on every failure of it (library missing, unknown model, encoding lookup or
\* encode raising) returns an integer >= 0 that is the heuristic count.
C13_EveryFailureGivesHeuristic ==
    IsCountTokensCall =>
        /\ ~call.ret.raised
        /\ call.ret.value >= 0
        /\ (\/ LibraryMissing(env)
            \/ UnknownModel(call.model_name)
            \/ LookupRaises(env, call.model_name)
            \/ EncodeRaises(env, call.model_name))
              => /\ call.ret.via = "heuristic"
                 /\ call.ret.value = HeuristicTokens(call.text)

\* C13 amended: count_tokens lets no error of the primary strategy out and
\* always returns an integer >= 0; when the library is missing, the lookup of
\* the default encoding raises or encode raises, the value is the heuristic
\* count; an unknown model alone leads to the default encoding cl100k_base,
\* not to the heuristic.
C13_FailureGivesHeuristic ==
    IsCountTokensCall =>
        /\ ~call.ret.raised
        /\ call.ret.value >= 0
        /\ (\/ LibraryMissing(env)
            \/ LookupRaises(env, call.model_name)
            \/ EncodeRaises(env, call.model_name))
              => /\ call.ret.via = "heuristic"
                 /\ call.ret.value = HeuristicTokens(call.text)
        /\ (/\ UnknownModel(call.model_name)
            /\ env.tiktoken /\ env.base /\ "cl100k_base" \notin env.encode_fails)
              => call.ret.via = "cl100k_base"

\* encode raises for the model's own encoding: the heuristic count comes back
C13_Witness ==
    /\ IsCountTokensCall
    /\ call.model_name = Some("gpt2")
    /\ EncodeRaises(env, call.model_name)
    /\ call.text = <<"a", ",", "\n">>
    /\ call.ret = [raised |-> FALSE, via |-> "heuristic", value |-> 2]


DefaultEncodes(e) == e.tiktoken /\ e.base /\ "cl100k_base" \notin e.encode_fails

\* C14 as stated: the model-specific encoding is used first; with the hint
\* absent or unrecognized, the default encoding cl100k_base; the heuristic
\* only if that is unavailable too, and never while the default encoding is
\* available and encodes successfully.
C14_HeuristicOnlyWithoutDefault ==
    IsCountTokensCall =>
        LET m == call.model_name
        IN  /\ (env.tiktoken /\ Recognized(m) /\ ChosenEncoding(m) \notin env.encode_fails)
                  => call.ret.via = ChosenEncoding(m)
            /\ (~Recognized(m) /\ DefaultEncodes(env))
                  => call.ret.via = "cl100k_base"
            /\ call.ret.via = "heuristic" => ~DefaultEncodes(env)

\* C14 amended: as stated, except that the heuristic is returned exactly when
\* the library is missing or the one encoding chosen (the model's for a
\* recognized hint, otherwise cl100k_base) cannot be loaded or its encode
\* raises: after a recognized model's encode raises, the default encoding is
\* not tried even if it is available.
C14_StrategyOrder ==
    IsCountTokensCall =>
        LET m == call.model_name
        IN  /\ (env.tiktoken /\ Recognized(m) /\ ChosenEncoding(m) \notin env.encode_fails)
                  => call.ret.via = ChosenEncoding(m)
            /\ (~Recognized(m) /\ DefaultEncodes(env))
                  => call.ret.via = "cl100k_base"
            /\ call.ret.via = "heuristic"
                  <=> \/ LibraryMissing(env)
                      \/ LookupRaises(env, m)
                      \/ EncodeRaises(env, m)

\* an unrecognized hint with the default encoding at hand: cl100k_base counts
C14_Witness ==
    /\ IsCountTokensCall
    /\ call.model_name = Some("no-such-model")
    /\ DefaultEncodes(env)
    /\ call.text = <<"a", ",", "\n">>
    /\ call.ret = [raised |-> FALSE, via |-> "cl100k_base", value |-> 3]


IsBuildPromptCall == call.fn = "build_prompt"

\* C15: with the system-prompt file missing, build_prompt fails at once with
\* FileNotFoundError naming the path, before the user content is processed;
\* it does not retry, substitutes no default and returns no PromptParts.
C15_MissingPromptFails ==
    (IsBuildPromptCall /\ IsNone(env.system_prompt)) =>
        /\ call.ret.raised
        /\ call.ret.error = Some([type |-> "FileNotFoundError",
                                  path |-> SYSTEM_PROMPT_PATH])
        /\ call.ret.steps = <<"load_system_prompt">>
        /\ call.ret.parts = None

C15_Witness ==
    /\ IsBuildPromptCall
    /\ IsNone(env.system_prompt)
    /\ call.user_message = <<" ", "a", "\n">>
    /\ call.ret.raised
    /\ call.ret.parts = None

\* C17: build_prompt returns the user content with only its leading and
\* trailing whitespace removed, no interior character changed, and as system
\* the trimmed text of the file, whatever the user content.
C17_UserTrimmedOnly ==
    (IsBuildPromptCall /\ ~IsNone(env.system_prompt)) =>
        /\ ~call.ret.raised
        /\ ~IsNone(call.ret.parts)
        /\ Val(call.ret.parts).user = Trimmed(call.user_message)
        /\ Val(call.ret.parts).system = Trimmed(Val(env.system_prompt))

C17_Witness ==
    /\ IsBuildPromptCall
    /\ env.system_prompt = Some(SystemPromptFile)
    /\ call.user_message = PaddedRequest
    /\ Val(call.ret.parts).user = <<"a", "\n", ",">>
    /\ Len(Val(call.ret.parts).system) = Len(SystemPromptFile) - 3


IsBuildInstructionCall == call.fn = "build_instruction"

\* text lines of a string: the pieces between newlines
RECURSIVE SplitLines(_)
SplitLines(text) ==
    IF ~str_contains(text, "\n") THEN <<text>>
    ELSE LET halves == str_split1(text, "\n")
         IN  <<halves[1]>> \o SplitLines(halves[2])

Capitalized(role) ==
    IF role = USER THEN <<"U", "s", "e", "r">>
    ELSE <<"A", "s", "s", "i", "s", "t", "a", "n", "t">>

TurnLine(item) == <<"-", " ">> \o Capitalized(item.role) \o <<":", " ">> \o item.content

\* the entries of the history section: after the three opening entries and
\* before the two closing ones
HistorySection(lines) == SubSeq(lines, 4, Len(lines) - 2)

\* C18: build_instruction produces, in order, the two preamble sentences, the
\* history heading, one entry "- Role: content" per turn of the window in
\* window order with the role capitalized, the current-request heading and
\* the message, joined by newlines; there are len(window) turn entries.
C18_InstructionShape ==
    IsBuildInstructionCall =>
        LET w     == call.history
            lines == call.lines
            n     == Len(lines)
            sect  == HistorySection(lines)
            turnl == {i \in 1..Len(sect) : SubSeq(sect[i], 1, 2) = <<"-", " ">>}
        IN  /\ SubSeq(lines, 1, 3) = <<PREAMBLE_1, PREAMBLE_2, HISTORY_HEADING>>
            /\ SubSeq(lines, n - 1, n) = <<REQUEST_HEADING, call.current_message>>
            /\ Cardinality(turnl) = Len(w)
            /\ \A i \in 1..Len(w) : sect[i] = TurnLine(w[i])
            /\ call.ret = str_join(<<"\n">>, lines)
            /\ Len(SplitLines(call.ret)) = n + 2

C18_Witness ==
    /\ IsBuildInstructionCall
    /\ Len(call.history) = 3
    /\ call.history[1].role = ASSISTANT
    /\ call.history[2].role = USER
    /\ call.current_message = ExplainRecursion
    /\ Len(call.lines) = 8

\* C19: with an empty window the history section is the single entry "(none)",
\* followed by the current-request heading and the message; with a non-empty
\* window no entry of the history section is the placeholder.
C19_PlaceholderIffEmpty ==
    IsBuildInstructionCall =>
        LET sect == HistorySection(call.lines)
            none == {i \in 1..Len(sect) : sect[i] = NONE_PLACEHOLDER}
        IN  IF call.history = <<>>
            THEN /\ call.lines = <<PREAMBLE_1, PREAMBLE_2, HISTORY_HEADING,
                                   NONE_PLACEHOLDER, REQUEST_HEADING,
                                   call.current_message>>
                 /\ Cardinality(none) = 1
            ELSE none = {}

C19_Witness ==
    /\ IsBuildInstructionCall
    /\ call.history = <<>>
    /\ call.current_message = ExplainRecursion
    /\ call.lines[4] = NONE_PLACEHOLDER


PromptMissing == IsNone(env.system_prompt)

\* C16 as stated: in a run with the system-prompt file missing, normalization,
\* windowing and instruction composition are not performed before the absence
\* is detected.
C16_AbsenceDetectedFirst ==
    (PromptMissing /\ IsNone(error)) =>
        pc \notin {"normalized", "windowed", "composed"}

\* C16, amended: with the system-prompt file missing the run ends with
\* FileNotFoundError naming the path; the absence is detected by build_prompt,
\* after normalization, windowing and instruction composition, and nothing is
\* printed at any point of the run.
C16_AbsenceDetectedAtBuildPrompt ==
    PromptMissing =>
        /\ pc \notin {"built", "done"}
        /\ stdout = <<>>
        /\ prompt_parts = None
        /\ ~IsNone(error) <=> pc = "failed"
        /\ pc = "failed" =>
             /\ error = Some([type |-> "FileNotFoundError",
                              path |-> SYSTEM_PROMPT_PATH])
             /\ history = normalize_history(turns)
             /\ method \in {"token_budget", "max_turns"}
             /\ window = IF method = "token_budget"
                         THEN window_by_token_budget(env, history,
                                                     Val(token_budget), model_hint)
                         ELSE window_by_max_turns(history, max_turns)
             /\ instruction = build_instruction(window, msg)

C16_Witness ==
    /\ PromptMissing
    /\ pc = "failed"
    /\ method = "token_budget"
    /\ Len(window) = 2
    /\ Len(history) = 3
    /\ ~IsNone(error)


\* the estimators of e1 and e2 give every turn of h the same cost
SameCosts(e1, e2, h, m) ==
    \A i \in 1..Len(h) : TurnCost(e1, h[i], m) = TurnCost(e2, h[i], m)

\* C20 as stated: the window returned for a history, a constraint value and a
\* model hint depends on nothing but these three: it is the same whatever
\* tokenizer the process finds installed.
C20_DependsOnlyOnInputs ==
    /\ IsBudgetCall =>
         \A e2 \in Envs :
            window_by_token_budget(e2, call.history, call.budget,
                                   call.model_name) = call.ret
    /\ IsMaxTurnsCall =>
         /\ IsSuffixOf(call.ret, call.history)
         /\ Len(call.ret) = IF call.max_turns <= 0 THEN 0
                            ELSE Min(call.max_turns, Len(call.history))

\* C20, amended: the window of window_by_max_turns depends on nothing but the
\* history and max_turns; the window of window_by_token_budget depends on the
\* history, the budget, the model hint and the token counts the estimator in
\* effect gives the rendered turns: with equal counts the window is the same.
C20_DependsOnInputsAndEstimator ==
    /\ IsBudgetCall =>
         \A e2 \in Envs :
            SameCosts(env, e2, call.history, call.model_name) =>
               window_by_token_budget(e2, call.history, call.budget,
                                      call.model_name) = call.ret
    /\ IsMaxTurnsCall =>
         /\ IsSuffixOf(call.ret, call.history)
         /\ Len(call.ret) = IF call.max_turns <= 0 THEN 0
                            ELSE Min(call.max_turns, Len(call.history))

C20_Witness ==
    /\ IsBudgetCall /\ ~call.nested
    /\ ~env.tiktoken
    /\ Len(call.history) = 2
    /\ Len(call.ret) = 1
    /\ \E e2 \in Envs :
          /\ e2.tiktoken
          /\ SameCosts(env, e2, call.history, call.model_name)
    /\ \E e3 \in Envs :
          window_by_token_budget(e3, call.history, call.budget,
                                 call.model_name) # call.ret


\* C24: window_by_max_turns, window_by_token_budget and build_instruction
\* leave the history they are given as it was (length, order, every role and
\* content), and every turn of a returned window is, role and content, the
\* input turn at the corresponding position.
C24_TurnsUnmodified ==
    (IsBuildInstructionCall \/ ((IsBudgetCall \/ IsMaxTurnsCall) /\ ~call.nested)) =>
        /\ history = call.history
        /\ (IsBudgetCall \/ IsMaxTurnsCall) =>
             LET h == call.history
                 w == call.ret
             IN  /\ Len(w) <= Len(h)
                 /\ \A i \in 1..Len(w) :
                       /\ w[i].role = h[Len(h) - Len(w) + i].role
                       /\ w[i].content = h[Len(h) - Len(w) + i].content

C24_Witness ==
    /\ IsBudgetCall /\ ~call.nested
    /\ Len(call.history) = 3
    /\ Len(call.ret) = 2
    /\ history = call.history
    /\ call.ret[1] = call.history[2]


\* the suffixes of h, by their first position (Len(h) + 1: the empty suffix),
\* whose summed cost is at most b
FittingSuffixes(e, h, b, m) == {k \in 1..(Len(h) + 1) : CostFrom(e, h, m, k) <= b}

\* C25 as stated: for every budget, window_by_token_budget returns the longest
\* suffix of the history whose summed cost is at most the budget.
C25_LongestFittingSuffixAnyBudget ==
    IsBudgetCall =>
        LET h   == call.history
            fit == FittingSuffixes(env, h, call.budget, call.model_name)
            k   == Len(h) - Len(call.ret) + 1
        IN  /\ IsSuffixOf(call.ret, h)
            /\ k \in fit
            /\ \A j \in fit : k <= j

\* C25, amended: for a budget >= 0, window_by_token_budget returns the longest
\* suffix of the history whose summed cost is at most the budget (the whole
\* history, or else the next older turn would take the sum past the budget; a
\* turn that brings the sum exactly to the budget is included); for a budget
\* below 0 it returns the empty window.
C25_LongestFittingSuffix ==
    IsBudgetCall =>
        LET h   == call.history
            b   == call.budget
            fit == FittingSuffixes(env, h, b, call.model_name)
            k   == Len(h) - Len(call.ret) + 1
        IN  /\ IsSuffixOf(call.ret, h)
            /\ b >= 0 =>
                 /\ k \in fit
                 /\ \A j \in fit : k <= j
                 /\ k = 1 \/ CostFrom(env, h, call.model_name, k - 1) > b
            /\ b < 0 => call.ret = <<>>

\* the retained turns cost exactly the budget
C25_Witness ==
    /\ IsBudgetCall /\ ~call.nested
    /\ call.budget > 0
    /\ Len(call.ret) = 2
    /\ Len(call.history) = 3
    /\ CostFrom(env, call.ret, call.model_name, 1) = call.budget


\* the lines of ts up to position i that parse_turn accepts
AcceptedUpTo(ts, i) == {j \in 1..i : Accepted(ts[j])}

\* C27: a line with a recognized role and nothing (or only blanks) after the
\* colon is kept as a turn with empty content; a line is dropped only for a
\* missing colon or an unrecognized role.
C27_EmptyContentKept ==
    /\ call.fn = "parse_turn" =>
         /\ IsNone(call.ret) <=> ~Accepted(call.turn_str)
         /\ (Accepted(call.turn_str) /\ ContentOf(call.turn_str) = <<>>) =>
               call.ret = Some([role |-> RoleOf(call.turn_str), content |-> <<>>])
    /\ call.fn = "normalize_history" =>
         LET ts == call.turns
         IN  /\ Len(call.ret) = Cardinality(AcceptedUpTo(ts, Len(ts)))
             /\ \A i \in 1..Len(ts) :
                   (Accepted(ts[i]) /\ ContentOf(ts[i]) = <<>>) =>
                      call.ret[Cardinality(AcceptedUpTo(ts, i))]
                         = [role |-> RoleOf(ts[i]), content |-> <<>>]

C27_Witness ==
    /\ call.fn = "normalize_history"
    /\ call.turns = <<L_hi, L_empty, L_bogus>>
    /\ call.ret = << [role |-> USER, content |-> <<"h", "i">>],
                     [role |-> USER, content |-> <<>>] >>


\* the two environments in which a heuristic counts: tokenizer.py not loaded
\* (the inline fallback), and tokenizer.py loaded without tiktoken
InlineEnv(e) == ~e.tok_mod
ModuleHeuristicEnv(e) == e.tok_mod /\ ~e.tiktoken

\* C28: the inline fallback of the demo's count_tokens and the tokenizer
\* module's _heuristic_count give every text the same count, so the window
\* chosen under the heuristic is the same whichever of the two is in effect.
C28_HeuristicsAgree ==
    /\ (call.fn = "demo.count_tokens" /\ InlineEnv(env)) =>
          /\ call.ret = heuristic_count(call.text)
          /\ \A e2 \in Envs : ModuleHeuristicEnv(e2) =>
                count_tokens(e2, call.text, call.model_name) = call.ret
    /\ (call.fn = "demo.count_tokens" /\ ModuleHeuristicEnv(env)) =>
          call.ret = inline_heuristic_count(call.text)
    /\ (IsBudgetCall /\ (InlineEnv(env) \/ ModuleHeuristicEnv(env))) =>
          \A e2 \in Envs : (InlineEnv(e2) \/ ModuleHeuristicEnv(e2)) =>
             window_by_token_budget(e2, call.history, call.budget,
                                    call.model_name) = call.ret

C28_Witness ==
    /\ call.fn = "demo.count_tokens"
    /\ InlineEnv(env)
    /\ call.text = HelloWorld
    /\ call.ret = 4
    /\ \E e2 \in Envs : ModuleHeuristicEnv(e2)


\* the count comes from a heuristic: the inline fallback, or tokenizer.py
\* falling back for want of an encoder
HeuristicInEffect(e, m) ==
    \/ ~e.tok_mod
    \/ tokenizer_count_tokens_result(e, <<>>, m).via = "heuristic"

\* the entry of stdout written by print("\nHistory tokens:", ...)
HistoryTokensEntries ==
    {i \in 1..Len(stdout) :
        Len(stdout[i]) = 2 /\ stdout[i][1] = "\nHistory tokens:"}

\* C26: with a positive token budget and a heuristic estimator, the History
\* tokens figure printed by the entry point is the sum of the per-line costs
\* of the retained turns used during windowing, and is at most the budget.
C26_HistoryTokensWithinBudget ==
    (pc = "done" /\ use_token_budget(token_budget)
                 /\ HeuristicInEffect(env, model_hint)) =>
        /\ Cardinality(HistoryTokensEntries) = 1
        /\ \A i \in HistoryTokensEntries :
              /\ stdout[i][2] = CostFrom(env, window, model_hint, 1)
              /\ stdout[i][2] <= Val(token_budget)

C26_Witness ==
    /\ pc = "done"
    /\ token_budget = Some(MaxBudget)
    /\ HeuristicInEffect(env, model_hint)
    /\ env.tok_mod
    /\ Len(window) = 2
    /\ Len(history) = 3
    /\ \E i \in HistoryTokensEntries : stdout[i][2] = 7


IsValidateCall == call.fn = "validate"

\* the run was ended by an exception
Terminated == pc = "sd_failed"

\* C21: in the two schema demos a malformed JSON payload or a schema mismatch
\* never ends the run: it is reported as a fail result with a reason; only
\* the missing system-prompt file ends it.
C21_OnlyMissingPromptTerminates ==
    /\ Terminated => (IsNone(env.system_prompt)
                      /\ Val(error).type = "FileNotFoundError")
    /\ (pc = "sd_done" /\ str_truthy(argv.json_str)
                       /\ Val(argv.json_str).kind = "malformed") =>
          (IsValidateCall /\ ~call.ret.ok)

\* C22: validate_payload and validate_tool_call report pass exactly when the
\* payload conforms to the schema, with jsonschema installed or not.
C22_PassIffConforms ==
    IsValidateCall =>
        (call.ret.ok <=>
            IF argv.demo = "structured_output"
            THEN conforms_feedback(call.payload)
            ELSE /\ is_dict(call.payload)
                 /\ {"tool", "arguments"} \subseteq dict_keys(call.payload)
                 /\ call.payload[2]["tool"][1] = "str"
                 /\ call.payload[2]["tool"][2] \in TOOL_NAMES
                 /\ conforms_tool(call.payload[2]["tool"][2],
                                  call.payload[2]["arguments"]))

\* the alias key stands in the lowercased message t as a token of its own,
\* with no word character directly before or after it
names_alias(key, t) ==
    \E p \in 1..(Len(t) - Len(key) + 1) :
        /\ SubSeq(t, p, p + Len(key) - 1) = key
        /\ ~(p > 1 /\ IsWord(t[p - 1]))
        /\ ~(p + Len(key) <= Len(t) /\ IsWord(t[p + Len(key)]))

\* the normalized names of the aliases the message names
NamedLanguages(message) ==
    {LANG_ALIASES[i].norm :
        i \in {j \in 1..Len(LANG_ALIASES) :
                  names_alias(LANG_ALIASES[j].key, str_lower(message))}}

\* C23: in the dynamic-prompt demo, when --lang is not given, a message that
\* names a language by an alias of LANG_ALIASES, "c++" and "c#" included,
\* resolves to that alias's normalized name; the documented message
\* "Write me code for a binary search tree in C++" resolves to C++ and not
\* to the Python default.
C23_NamedAliasResolves ==
    (pc = "dp_parsed" /\ IsNone(argv.lang)) =>
        /\ NamedLanguages(msg) # {} => call.dyn.language \in NamedLanguages(msg)
        /\ msg \in {DocumentedRequest, DEFAULT_REQUEST} =>
              call.dyn.language = <<"C", "+", "+">>

====
